---- MODULE Spec2Model ----
(***************************************************************************)
(* LabLens: the analysis route of the server (server/routes/analysis.js),  *)
(* its catalog of lab definitions and the pipeline of POST /api/analyze.   *)
(*                                                                         *)
(* Numbers are JavaScript numbers: IEEE-754 binary64.  A finite positive   *)
(* double is a record [nan, m, e] whose value is m * 2^e, the mantissa m   *)
(* a natural number of exactly 53 bits held as little-endian limbs of      *)
(* LimbBits bits; zero has the empty mantissa.  Decimal literals (of the   *)
(* document and of definitions.json) are pairs n / 10^k.                   *)
(***************************************************************************)
EXTENDS Integers, Sequences, FiniteSets, TLC

(***************************************************************************)
(* Natural numbers of any size, as little-endian sequences of limbs.       *)
(***************************************************************************)
LimbBits == 15
LimbBase == 32768

RECURSIVE BigNorm(_)
BigNorm(a) ==
  IF a = <<>> THEN <<>>
  ELSE IF a[Len(a)] = 0 THEN BigNorm(SubSeq(a, 1, Len(a) - 1))
  ELSE a

RECURSIVE BigFromInt(_)
BigFromInt(n) ==
  IF n = 0 THEN <<>> ELSE <<n % LimbBase>> \o BigFromInt(n \div LimbBase)

RECURSIVE BigMulSmallFrom(_, _, _, _)
BigMulSmallFrom(a, k, i, carry) ==
  IF i > Len(a)
  THEN BigFromInt(carry)
  ELSE <<(a[i] * k + carry) % LimbBase>>
       \o BigMulSmallFrom(a, k, i + 1, (a[i] * k + carry) \div LimbBase)

\* a * k for 0 <= k < LimbBase
BigMulSmall(a, k) == BigNorm(BigMulSmallFrom(a, k, 1, 0))

LimbAt(a, i) == IF i <= Len(a) THEN a[i] ELSE 0

RECURSIVE BigAddFrom(_, _, _, _)
BigAddFrom(a, b, i, carry) ==
  IF i > Len(a) /\ i > Len(b)
  THEN BigFromInt(carry)
  ELSE <<(LimbAt(a, i) + LimbAt(b, i) + carry) % LimbBase>>
       \o BigAddFrom(a, b, i + 1, (LimbAt(a, i) + LimbAt(b, i) + carry) \div LimbBase)

BigAdd(a, b) == BigNorm(BigAddFrom(a, b, 1, 0))

BigZeros(n) == [i \in 1..n |-> 0]

RECURSIVE BigMulFrom(_, _, _)
BigMulFrom(a, b, j) ==
  IF j > Len(b)
  THEN <<>>
  ELSE BigAdd(BigZeros(j - 1) \o BigMulSmall(a, b[j]), BigMulFrom(a, b, j + 1))

BigMul(a, b) == BigNorm(BigMulFrom(a, b, 1))

\* quotient and remainder of a by k, 1 <= k <= LimbBase, from the top limb down
RECURSIVE BigDivSmallFrom(_, _, _, _, _)
BigDivSmallFrom(a, k, i, rem, quot) ==
  IF i = 0
  THEN [q |-> quot, r |-> rem]
  ELSE BigDivSmallFrom(a, k, i - 1, (rem * LimbBase + a[i]) % k,
                       <<(rem * LimbBase + a[i]) \div k>> \o quot)

NormQuotient(d) == [q |-> BigNorm(d.q), r |-> d.r]

BigDivSmall(a, k) == NormQuotient(BigDivSmallFrom(a, k, Len(a), 0, <<>>))

RECURSIVE SmallBitLen(_)
SmallBitLen(x) == IF x = 0 THEN 0 ELSE 1 + SmallBitLen(x \div 2)

BigBitLen(a) ==
  IF a = <<>> THEN 0 ELSE LimbBits * (Len(a) - 1) + SmallBitLen(a[Len(a)])

BigIsOdd(a) == a # <<>> /\ a[1] % 2 = 1

\* a * 2^s
BigShl(a, s) ==
  BigNorm(BigZeros(s \div LimbBits) \o BigMulSmallFrom(a, 2 ^ (s % LimbBits), 1, 0))

DroppedLimbs(a, drop) == \E i \in 1..Len(a) : i <= drop /\ a[i] # 0
KeptLimbs(a, drop) == IF drop >= Len(a) THEN <<>> ELSE SubSeq(a, drop + 1, Len(a))
WithSticky(d, lost) == [q |-> d.q, sticky |-> lost \/ d.r # 0]

\* floor(a / 2^s), and whether any bit was shifted out
BigShr(a, s) ==
  WithSticky(BigDivSmall(KeptLimbs(a, s \div LimbBits), 2 ^ (s % LimbBits)),
             DroppedLimbs(a, s \div LimbBits))

RECURSIVE BigLessFrom(_, _, _)
BigLessFrom(a, b, i) ==
  IF i = 0 THEN FALSE
  ELSE IF a[i] # b[i] THEN a[i] < b[i]
  ELSE BigLessFrom(a, b, i - 1)

\* a < b, both normalised
BigLess(a, b) ==
  IF Len(a) # Len(b) THEN Len(a) < Len(b) ELSE BigLessFrom(a, b, Len(a))

(***************************************************************************)
(* IEEE-754 binary64, round to nearest, ties to even.                      *)
(***************************************************************************)
MantBits == 53

NaN   == [nan |-> TRUE,  m |-> <<>>, e |-> 0]
FZero == [nan |-> FALSE, m |-> <<>>, e |-> 0]

Finite(m, e) == [nan |-> FALSE, m |-> m, e |-> e]

\* a mantissa that rounding carried to MantBits + 1 bits is halved
FNormalize(r, e) ==
  IF BigBitLen(r) > MantBits THEN Finite(BigShr(r, 1).q, e + 1) ELSE Finite(r, e)

\* q: the leading MantBits bits; guard: the next bit; sticky: any bit after it
FRoundBits(q, guard, sticky, e) ==
  IF guard /\ (sticky \/ BigIsOdd(q)) THEN FNormalize(BigAdd(q, <<1>>), e)
  ELSE Finite(q, e)

\* sh: the leading MantBits + 1 bits and whether a lower bit is set
FRoundGuard(sh, sticky, e) ==
  FRoundBits(BigShr(sh.q, 1).q, BigIsOdd(sh.q), sh.sticky \/ sticky, e)

FRoundLen(n, sticky, e0, len) ==
  IF len <= MantBits
  THEN Finite(BigShl(n, MantBits - len), e0 - (MantBits - len))
  ELSE FRoundGuard(BigShr(n, len - MantBits - 1), sticky, e0 + len - MantBits)

\* the double nearest to (n + f) * 2^e0, where 0 <= f < 1 and f > 0 iff sticky;
\* n has more than MantBits bits whenever sticky
FRound(n, sticky, e0) == FRoundLen(n, sticky, e0, BigBitLen(n))

ScaleBits == 75

FRoundQuotient(dv, e0) == FRound(dv.q, dv.r # 0, e0)

\* the double a decimal literal n / d denotes (d a power of ten below LimbBase)
FromDecimal(n, d) ==
  IF n = 0 THEN FZero
  ELSE FRoundQuotient(BigDivSmall(BigShl(BigFromInt(n), ScaleBits), d), 0 - ScaleBits)

\* x * y
FMul(x, y) ==
  IF x.nan \/ y.nan THEN NaN
  ELSE IF x.m = <<>> \/ y.m = <<>> THEN FZero
  ELSE FRound(BigMul(x.m, y.m), FALSE, x.e + y.e)

\* x < y; every comparison with NaN is false
FLess(x, y) ==
  IF x.nan \/ y.nan THEN FALSE
  ELSE IF y.m = <<>> THEN FALSE
  ELSE IF x.m = <<>> THEN TRUE
  ELSE x.e < y.e \/ (x.e = y.e /\ BigLess(x.m, y.m))

(***************************************************************************)
(* Strings are sequences of one-character strings.  The documents and the  *)
(* catalog of this model are written over letters, digits, space, newline  *)
(* and the characters : . / % _ ( ) #.                                      *)
(***************************************************************************)
Uppers == <<"A","B","C","D","E","F","G","H","I","J","K","L","M",
            "N","O","P","Q","R","S","T","U","V","W","X","Y","Z">>
Lowers == <<"a","b","c","d","e","f","g","h","i","j","k","l","m",
            "n","o","p","q","r","s","t","u","v","w","x","y","z">>
Digits == <<"0","1","2","3","4","5","6","7","8","9">>

IndexIn(seq, c) == IF \E i \in 1..Len(seq) : seq[i] = c
                   THEN CHOOSE i \in 1..Len(seq) : seq[i] = c
                   ELSE 0

\* String.prototype.toUpperCase / the canonical case of the regex flag 'i'
toUpperCase(s) ==
  [i \in 1..Len(s) |-> IF IndexIn(Lowers, s[i]) > 0 THEN Uppers[IndexIn(Lowers, s[i])] ELSE s[i]]

IsDigit(c) == IndexIn(Digits, c) > 0
IsSpace(c) == c \in {" ", "\n"}
IsNumChar(c) == IsDigit(c) \/ c = "."

\* s.replace(/[()]/g, '') and s.replace(/_/g, ' ')
RECURSIVE RemoveParens(_)
RemoveParens(s) ==
  IF s = <<>> THEN <<>>
  ELSE IF Head(s) \in {"(", ")"} THEN RemoveParens(Tail(s))
  ELSE <<Head(s)>> \o RemoveParens(Tail(s))

UnderscoresToSpaces(s) == [i \in 1..Len(s) |-> IF s[i] = "_" THEN " " ELSE s[i]]

RECURSIVE DigitsToInt(_)
DigitsToInt(s) ==
  IF s = <<>> THEN 0
  ELSE 10 * DigitsToInt(SubSeq(s, 1, Len(s) - 1)) + (IndexIn(Digits, s[Len(s)]) - 1)

\* the end (exclusive) of the longest run of characters satisfying a class, from i
RECURSIVE SkipSpaces(_, _)
SkipSpaces(t, i) == IF i <= Len(t) /\ IsSpace(t[i]) THEN SkipSpaces(t, i + 1) ELSE i
RECURSIVE SkipDigits(_, _)
SkipDigits(t, i) == IF i <= Len(t) /\ IsDigit(t[i]) THEN SkipDigits(t, i + 1) ELSE i
RECURSIVE SkipNumChars(_, _)
SkipNumChars(t, i) == IF i <= Len(t) /\ IsNumChar(t[i]) THEN SkipNumChars(t, i + 1) ELSE i

\* the digits of the integer part and of the fraction, as a number
DecimalOf(int, frac) ==
  IF int = <<>> /\ frac = <<>> THEN NaN
  ELSE FromDecimal(DigitsToInt(int \o frac), 10 ^ Len(frac))

ParseFraction(s, intEnd, fracEnd) ==
  DecimalOf(SubSeq(s, 1, intEnd - 1), SubSeq(s, intEnd + 1, fracEnd - 1))

ParseFrom(s, intEnd) ==
  IF intEnd <= Len(s) /\ s[intEnd] = "."
  THEN ParseFraction(s, intEnd, SkipDigits(s, intEnd + 1))
  ELSE DecimalOf(SubSeq(s, 1, intEnd - 1), <<>>)

\* parseFloat of a string that starts with neither white space nor a sign:
\* the longest prefix digits [. digits] or . digits, NaN when there is none
parseFloat(s) == ParseFrom(s, SkipDigits(s, 1))

(***************************************************************************)
(* new RegExp(`${pattern}\\s*:?\\s*([0-9.]+)\\s*(${unit})?`, 'i') and       *)
(* text.match(regex).  The pattern is regex source: over the alphabet      *)
(* above its only metacharacters are ( and ), which group and capture.     *)
(***************************************************************************)
RECURSIVE ParenDepthOk(_, _)
ParenDepthOk(s, depth) ==
  IF s = <<>> THEN depth = 0
  ELSE IF Head(s) = "(" THEN ParenDepthOk(Tail(s), depth + 1)
  ELSE IF Head(s) = ")" THEN depth > 0 /\ ParenDepthOk(Tail(s), depth - 1)
  ELSE ParenDepthOk(Tail(s), depth)

\* whether the RegExp constructor accepts the source (else it throws SyntaxError)
RegexCompiles(pattern, unit) == ParenDepthOk(pattern, 0) /\ ParenDepthOk(unit, 0)

HasGroup(pattern) == IndexIn(pattern, "(") > 0

\* position of the ")" closing the "(" at position open
RECURSIVE CloseOf(_, _, _)
CloseOf(s, i, depth) ==
  IF s[i] = ")" /\ depth = 1 THEN i
  ELSE IF s[i] = ")" THEN CloseOf(s, i + 1, depth - 1)
  ELSE IF s[i] = "(" THEN CloseOf(s, i + 1, depth + 1)
  ELSE CloseOf(s, i + 1, depth)

\* the offsets, within the literal characters of the pattern, of its first group
GroupSpan(pattern, open, close) ==
  [from |-> Len(RemoveParens(SubSeq(pattern, 1, open - 1))) + 1,
   to   |-> Len(RemoveParens(SubSeq(pattern, 1, close - 1)))]

GroupSpanFrom(pattern, open) == GroupSpan(pattern, open, CloseOf(pattern, open + 1, 1))

FirstGroupSpan(pattern) == GroupSpanFrom(pattern, IndexIn(pattern, "("))

\* past an optional colon
SkipColon(upper, a) == IF a <= Len(upper) /\ upper[a] = ":" THEN a + 1 ELSE a

\* the number's first position, for a match of the literal at position i
NumberStart(upper, lit, i) ==
  SkipSpaces(upper, SkipColon(upper, SkipSpaces(upper, i + Len(lit))))

StartsNumber(upper, c) == c <= Len(upper) /\ IsNumChar(upper[c])

\* whether the regex matches at position i of the text (upper: the text in
\* canonical case, lit: the pattern's literal characters in canonical case)
MatchesAt(upper, lit, i) ==
  /\ i + Len(lit) - 1 <= Len(upper)
  /\ \A j \in 1..Len(lit) : upper[i + j - 1] = lit[j]
  /\ StartsNumber(upper, NumberStart(upper, lit, i))

SliceOf(text, i, span) == SubSeq(text, i + span.from - 1, i + span.to - 1)
NumberAt(text, upper, n) == SubSeq(text, n, SkipNumChars(upper, n) - 1)

\* the first capture of the match at position i
Group1(text, upper, pattern, lit, i) ==
  IF HasGroup(pattern) THEN SliceOf(text, i, FirstGroupSpan(pattern))
  ELSE NumberAt(text, upper, NumberStart(upper, lit, i))

Leftmost(hits) == CHOOSE h \in hits : \A g \in hits : h <= g

MatchAmong(text, upper, pattern, lit, hits) ==
  IF hits = {} THEN [found |-> FALSE, group1 |-> <<>>]
  ELSE [found |-> TRUE, group1 |-> Group1(text, upper, pattern, lit, Leftmost(hits))]

MatchUpper(text, upper, pattern, lit) ==
  MatchAmong(text, upper, pattern, lit, {i \in 1..Len(text) : MatchesAt(upper, lit, i)})

\* text.match(regex): [found, group1], the leftmost match's first capture
RegexMatch(text, pattern) ==
  MatchUpper(text, toUpperCase(text), pattern, toUpperCase(RemoveParens(pattern)))

(***************************************************************************)
(* Number to string, as a template literal does it: the shortest decimal   *)
(* that reads back as the same double.                                     *)
(***************************************************************************)
RECURSIVE BigToInt(_)
BigToInt(a) == IF a = <<>> THEN 0 ELSE a[1] + LimbBase * BigToInt(Tail(a))

RECURSIVE IntToChars(_)
IntToChars(n) ==
  IF n < 10 THEN <<Digits[n + 1]>>
  ELSE IntToChars(n \div 10) \o <<Digits[(n % 10) + 1]>>

RECURSIVE FracChars(_, _)
FracChars(n, k) ==
  IF k = 0 THEN <<>> ELSE FracChars(n \div 10, k - 1) \o <<Digits[(n % 10) + 1]>>

MaxFracDigits == 4

\* of the two decimals with k fraction digits around x, the one that reads back as x
ReadsBack(x, low, d) ==
  IF FromDecimal(low, d) = x THEN low
  ELSE IF FromDecimal(low + 1, d) = x THEN low + 1
  ELSE 0 - 1

RECURSIVE ShortestDecimal(_, _)
ShortestFrom(x, k, n) ==
  IF n >= 0 \/ k = MaxFracDigits THEN [n |-> n, k |-> k] ELSE ShortestDecimal(x, k + 1)

ShortestDecimal(x, k) ==
  ShortestFrom(x, k,
    ReadsBack(x, BigToInt(BigShr(BigMulSmall(x.m, 10 ^ k), 0 - x.e).q), 10 ^ k))

DecimalChars(n, k) ==
  IntToChars(n \div (10 ^ k))
    \o (IF k = 0 THEN <<>> ELSE <<".">> \o FracChars(n % (10 ^ k), k))

DecimalString(dec) == DecimalChars(dec.n, dec.k)

NumberToString(x) ==
  IF x.nan THEN <<"N", "a", "N">>
  ELSE IF x.m = <<>> THEN <<"0">>
  ELSE DecimalString(ShortestDecimal(x, 0))

(***************************************************************************)
(* data/definitions.json.  The document lists panels and tests in order,   *)
(* as [id, def] entries, and may repeat a key; numbers are decimal         *)
(* literals <<n, d>>.  JSON.parse keeps, for a repeated key, the place of  *)
(* its first occurrence and the value of its last.                         *)
(***************************************************************************)
NoRange == [present |-> FALSE, min |-> FZero, max |-> FZero]

ParseRange(r) ==
  IF r.present
  THEN [present |-> TRUE, min |-> FromDecimal(r.min[1], r.min[2]),
        max |-> FromDecimal(r.max[1], r.max[2])]
  ELSE NoRange

\* a referenceRange: kind "flat" (min, max), "gender" (male, female, either
\* possibly absent), "string" (a text such as Negative) or "undefined"
ParseReferenceRange(rr) ==
  [kind |-> rr.kind, flat |-> ParseRange(rr.flat), male |-> ParseRange(rr.male),
   female |-> ParseRange(rr.female), text |-> rr.text]

LastIndexOfKey(entries, key) ==
  CHOOSE i \in 1..Len(entries) :
    entries[i].id = key /\ \A j \in (i + 1)..Len(entries) : entries[j].id # key

RECURSIVE ParseObject(_, _)
ParseObject(entries, i) ==
  IF i > Len(entries) THEN <<>>
  ELSE IF \E j \in 1..(i - 1) : entries[j].id = entries[i].id
  THEN ParseObject(entries, i + 1)
  ELSE <<entries[LastIndexOfKey(entries, entries[i].id)]>> \o ParseObject(entries, i + 1)

ParseTestDef(t) ==
  [id |-> t.id, hasName |-> t.hasName, name |-> t.name, hasUnit |-> t.hasUnit,
   unit |-> t.unit, referenceRange |-> ParseReferenceRange(t.referenceRange),
   explanation |-> t.explanation, category |-> t.category]

ParseTests(tests) == [i \in 1..Len(tests) |-> ParseTestDef(tests[i])]

ParsePanelDef(p) ==
  [id |-> p.id, name |-> p.name, description |-> p.description,
   tests |-> ParseTests(ParseObject(p.tests, 1))]

\* JSON.parse(await fs.readFile(definitionsPath, 'utf8'))
ParsePanels(panels) == [i \in 1..Len(panels) |-> ParsePanelDef(panels[i])]

JSONParse(doc) == [labPanels |-> ParsePanels(ParseObject(doc.labPanels, 1))]

(***************************************************************************)
(* The extraction and classification engine.                               *)
(***************************************************************************)
F08 == FromDecimal(8, 10)
F09 == FromDecimal(9, 10)
F11 == FromDecimal(11, 10)
F12 == FromDecimal(12, 10)

\* a classification by direction
determineFlagDirection(value, min, max) ==
  IF FLess(value, min) THEN "low"
  ELSE IF FLess(max, value) THEN "high"
  ELSE "normal"

determineFlag(value, min, max) ==
  IF FLess(value, min)
  THEN IF FLess(value, FMul(min, F08)) THEN "critical"
       ELSE IF FLess(value, FMul(min, F09)) THEN "abnormal"
       ELSE "borderline"
  ELSE IF FLess(max, value)
  THEN IF FLess(FMul(max, F12), value) THEN "critical"
       ELSE IF FLess(FMul(max, F11), value) THEN "abnormal"
       ELSE "borderline"
  ELSE "normal"

Null == [isNull |-> TRUE, text |-> <<>>]
Str(s) == [isNull |-> FALSE, text |-> s]

UndefinedChars == <<"u","n","d","e","f","i","n","e","d">>
UnitSource(testDef) == IF testDef.hasUnit THEN testDef.unit ELSE UndefinedChars

\* `${range.min} - ${range.max} ${testDef.unit}`
RangeString(range, testDef) ==
  Str(NumberToString(range.min) \o <<" ", "-", " ">> \o NumberToString(range.max)
        \o <<" ">> \o UnitSource(testDef))

NullRange == [kind |-> "null", flat |-> NoRange, male |-> NoRange,
              female |-> NoRange, text |-> <<>>]

testNamePatterns(testDef, testId) ==
  << testDef.name,
     RemoveParens(testDef.name),
     toUpperCase(testId),
     toUpperCase(UnderscoresToSpaces(testId)) >>

ValueOf(match) == [threw |-> FALSE, found |-> TRUE, value |-> parseFloat(match.group1)]

\* the loop over the patterns: stops at the first pattern that matches, or at
\* the first whose regex does not compile (new RegExp throws)
RECURSIVE SearchPatterns(_, _, _, _)
SearchNext(text, patterns, unit, i, match) ==
  IF match.found THEN ValueOf(match) ELSE SearchPatterns(text, patterns, unit, i + 1)

SearchPatterns(text, patterns, unit, i) ==
  IF i > Len(patterns) THEN [threw |-> FALSE, found |-> FALSE, value |-> NaN]
  ELSE IF ~RegexCompiles(patterns[i], unit)
  THEN [threw |-> TRUE, found |-> FALSE, value |-> NaN]
  ELSE SearchNext(text, patterns, unit, i, RegexMatch(text, patterns[i]))

\* null
NoTest == [found |-> FALSE]

\* refRange.female || refRange.male
ChosenRangeFemaleFirst(refRange) ==
  IF refRange.kind = "flat" THEN refRange.flat
  ELSE IF refRange.kind = "gender" /\ refRange.female.present THEN refRange.female
  ELSE IF refRange.kind = "gender" THEN refRange.male
  ELSE NoRange

\* the range the flag is computed from: flat, else male || female
ChosenRange(refRange) ==
  IF refRange.kind = "flat" THEN refRange.flat
  ELSE IF refRange.kind = "gender" /\ refRange.male.present THEN refRange.male
  ELSE IF refRange.kind = "gender" THEN refRange.female
  ELSE NoRange

IsObject(refRange) == refRange.kind \in {"flat", "gender"}

\* the reference range string and the flag, from the range chosen
RangeAndFlag(value, testDef, refRange, range) ==
  IF IsObject(refRange) /\ range.present
  THEN [referenceRange |-> RangeString(range, testDef),
        flag |-> determineFlag(value, range.min, range.max)]
  ELSE [referenceRange |->
          IF refRange.kind = "string" THEN Str(refRange.text) ELSE Null,
        flag |-> "normal"]

ExtractedTest(value, testDef, refRange, rf) ==
  [found |-> TRUE,
   name |-> testDef.name,
   value |-> value,
   hasUnit |-> testDef.hasUnit,
   unit |-> testDef.unit,
   referenceRange |-> rf.referenceRange,
   referenceRangeNumeric |-> IF IsObject(refRange) THEN refRange ELSE NullRange,
   flag |-> rf.flag,
   explanation |-> testDef.explanation,
   category |-> testDef.category]

TestOf(search, testDef) ==
  IF search.threw \/ ~search.found
  THEN NoTest   \* if (value === null) return null, or the catch
  ELSE ExtractedTest(search.value, testDef, testDef.referenceRange,
         RangeAndFlag(search.value, testDef, testDef.referenceRange,
                      ChosenRange(testDef.referenceRange)))

extractSingleTest(text, testDef, testId) ==
  IF ~testDef.hasName
  THEN NoTest   \* testDef.name.replace throws TypeError; the catch returns null
  ELSE TestOf(SearchPatterns(text, testNamePatterns(testDef, testId),
                             UnitSource(testDef), 1),
              testDef)

KeyedTest(testId, extractedTest) ==
  IF extractedTest.found THEN <<[id |-> testId, test |-> extractedTest]>> ELSE <<>>

\* the forEach over the tests given up at the first test that fails
RECURSIVE extractTestsFromStopping(_, _, _)
extractTestsFromStopping(text, tests, i) ==
  IF i > Len(tests) THEN <<>>
  ELSE IF ~extractSingleTest(text, tests[i], tests[i].id).found THEN <<>>
  ELSE KeyedTest(tests[i].id, extractSingleTest(text, tests[i], tests[i].id))
         \o extractTestsFromStopping(text, tests, i + 1)

\* the tests of one panel that matched, in catalog order, keyed by testId
RECURSIVE extractTestsFrom(_, _, _)
extractTestsFrom(text, tests, i) ==
  IF i > Len(tests) THEN <<>>
  ELSE KeyedTest(tests[i].id, extractSingleTest(text, tests[i], tests[i].id))
         \o extractTestsFrom(text, tests, i + 1)

extractTestsForPanel(text, panelDef) == extractTestsFrom(text, panelDef.tests, 1)

\* the panel kept whether or not a test of it matched
PanelOfAlways(panelDef, panelTests) ==
  <<[id |-> panelDef.id, name |-> panelDef.name,
     description |-> panelDef.description, tests |-> panelTests]>>

PanelOf(panelDef, panelTests) ==
  IF Len(panelTests) > 0
  THEN <<[id |-> panelDef.id, name |-> panelDef.name,
          description |-> panelDef.description, tests |-> panelTests]>>
  ELSE <<>>

\* the scan stopped after the panel at i
PanelsFromOne(text, labPanels, i) ==
  IF i > Len(labPanels) THEN <<>>
  ELSE PanelOf(labPanels[i], extractTestsForPanel(text, labPanels[i]))

\* the forEach over Object.entries(definitions.labPanels)
RECURSIVE PanelsFrom(_, _, _)
PanelsFrom(text, labPanels, i) ==
  IF i > Len(labPanels) THEN <<>>
  ELSE PanelOf(labPanels[i], extractTestsForPanel(text, labPanels[i]))
         \o PanelsFrom(text, labPanels, i + 1)

(***************************************************************************)
(* Error messages are sequences of words; message.includes(w) is modelled  *)
(* for a word w.                                                           *)
(***************************************************************************)
Includes(message, word) == \E i \in 1..Len(message) : message[i] = word

MsgInsufficientText == <<"parsing", ":", "Insufficient", "text", "extracted", "from", "PDF">>
MsgNoTests    == <<"parsing", ":", "No", "recognizable", "lab", "tests", "found",
                   "in", "the", "document">>
MsgENOENT     == <<"ENOENT", ":", "no", "such", "file", "or", "directory", ",", "open",
                   "data/definitions.json">>
MsgJSONSyntax == <<"Unexpected", "token", "in", "JSON", "at", "position", "0">>

\* the catch of parseLabResults: throw new Error(`parsing: ${error.message}`)
ParsingError(message) == <<"parsing", ":">> \o message

MinTextLength == 100

\* ocrResults.text || ocrResults.extractedText || ''
ExtractedText(ocrResults) ==
  IF ocrResults.hasText /\ ocrResults.text # <<>> THEN ocrResults.text
  ELSE IF ocrResults.hasExtractedText /\ ocrResults.extractedText # <<>>
  THEN ocrResults.extractedText
  ELSE <<>>

Failure(message) == [ok |-> FALSE, panels |-> <<>>, message |-> ParsingError(message)]

PanelsResult(panels) ==
  IF Len(panels) = 0 THEN Failure(MsgNoTests)
  ELSE [ok |-> TRUE, panels |-> panels, message |-> <<>>]

\* parseLabResults with the length check written <= : a text of exactly the
\* minimum length is rejected
ParseTextAtMost(extractedText, definitions) ==
  IF extractedText = <<>> \/ Len(extractedText) <= MinTextLength
  THEN Failure(MsgInsufficientText)
  ELSE PanelsResult(PanelsFrom(extractedText, definitions.labPanels, 1))

ParseText(extractedText, definitions) ==
  IF extractedText = <<>> \/ Len(extractedText) < MinTextLength
  THEN Failure(MsgInsufficientText)
  ELSE PanelsResult(PanelsFrom(extractedText, definitions.labPanels, 1))

\* parseLabResults once fs.readFile has settled with the file's state
parseLabResults(ocr, file) ==
  IF ~file.exists THEN [ok |-> FALSE, panels |-> <<>>, message |-> ParsingError(MsgENOENT)]
  ELSE IF ~file.isJSON
  THEN [ok |-> FALSE, panels |-> <<>>, message |-> ParsingError(MsgJSONSyntax)]
  ELSE ParseText(ExtractedText(ocr), JSONParse(file.doc))

\* all tests of all panels, in order
RECURSIVE AllTests(_)
AllTests(panels) ==
  IF panels = <<>> THEN <<>>
  ELSE [i \in 1..Len(Head(panels).tests) |-> Head(panels).tests[i].test]
       \o AllTests(Tail(panels))

RECURSIVE CountFlags(_, _, _)
CountFlags(tests, i, acc) ==
  IF i > Len(tests) THEN acc
  ELSE CountFlags(tests, i + 1,
         [acc EXCEPT !.totalTests = @ + 1,
                     !.normalCount = @ + (IF tests[i].flag = "normal" THEN 1 ELSE 0),
                     !.borderlineCount = @ + (IF tests[i].flag = "borderline" THEN 1 ELSE 0),
                     !.abnormalCount = @ + (IF tests[i].flag = "abnormal" THEN 1 ELSE 0),
                     !.criticalCount = @ + (IF tests[i].flag = "critical" THEN 1 ELSE 0)])

\* the summary with flaggedTests counted from the abnormal and critical tests
SummaryOfSevere(c) ==
  [totalTests |-> c.totalTests,
   normalCount |-> c.normalCount,
   borderlineCount |-> c.borderlineCount,
   abnormalCount |-> c.abnormalCount,
   criticalCount |-> c.criticalCount,
   flaggedTests |-> c.abnormalCount + c.criticalCount]

SummaryOf(c) ==
  [totalTests |-> c.totalTests,
   normalCount |-> c.normalCount,
   borderlineCount |-> c.borderlineCount,
   abnormalCount |-> c.abnormalCount,
   criticalCount |-> c.criticalCount,
   flaggedTests |-> c.totalTests - c.normalCount]

calculateSummary(panels) ==
  SummaryOf(CountFlags(AllTests(panels), 1,
              [totalTests |-> 0, normalCount |-> 0, borderlineCount |-> 0,
               abnormalCount |-> 0, criticalCount |-> 0]))

(***************************************************************************)
(* The catalogs and the documents of the model.                            *)
(***************************************************************************)
NoRangeDoc == [present |-> FALSE, min |-> <<0, 1>>, max |-> <<0, 1>>]
RangeDoc(min, max) == [present |-> TRUE, min |-> min, max |-> max]

FlatDoc(min, max) ==
  [kind |-> "flat", flat |-> RangeDoc(min, max), male |-> NoRangeDoc,
   female |-> NoRangeDoc, text |-> <<>>]
GenderDoc(male, female) ==
  [kind |-> "gender", flat |-> NoRangeDoc, male |-> male, female |-> female,
   text |-> <<>>]

TestDoc(id, hasName, name, hasUnit, unit, referenceRange) ==
  [id |-> id, hasName |-> hasName, name |-> name, hasUnit |-> hasUnit, unit |-> unit,
   referenceRange |-> referenceRange, explanation |-> "explanation of the test",
   category |-> "category of the test"]

sHemoglobin == <<"H","e","m","o","g","l","o","b","i","n">>
sPotassium  == <<"P","o","t","a","s","s","i","u","m">>
sIronFe     == <<"I","r","o","n"," ","(","F","e",")">>
sGlucose    == <<"G","l","u","c","o","s","e">>
idHemoglobin == <<"h","e","m","o","g","l","o","b","i","n">>
idPotassium  == <<"p","o","t","a","s","s","i","u","m">>
idSerumIron  == <<"s","e","r","u","m","_","i","r","o","n">>
uGL    == <<"g","/","L">>
uMmolL == <<"m","m","o","l","/","L">>
uUmolL == <<"u","m","o","l","/","L">>

HemoglobinDoc == TestDoc(idHemoglobin, TRUE, sHemoglobin, TRUE, uGL,
                         FlatDoc(<<120, 1>>, <<155, 1>>))
PotassiumDoc  == TestDoc(idPotassium, TRUE, sPotassium, TRUE, uMmolL,
                         FlatDoc(<<35, 10>>, <<50, 10>>))
SerumIronDoc  == TestDoc(idSerumIron, TRUE, sIronFe, TRUE, uUmolL,
                         GenderDoc(RangeDoc(<<11, 1>>, <<32, 1>>),
                                   RangeDoc(<<9, 1>>, <<30, 1>>)))

PanelDoc(id, name, tests) ==
  [id |-> id, name |-> name, description |-> "description of the panel", tests |-> tests]

ChemistryDoc == PanelDoc("chemistry", "Chemistry", <<PotassiumDoc, SerumIronDoc>>)

\* a catalog without defect
DocGood ==
  [labPanels |-> <<PanelDoc("cbc", "Complete Blood Count", <<HemoglobinDoc>>),
                   ChemistryDoc>>]
\* a range with min >= max
DocInverted ==
  [labPanels |->
     <<PanelDoc("cbc", "Complete Blood Count",
         <<TestDoc(idHemoglobin, TRUE, sHemoglobin, TRUE, uGL,
                   FlatDoc(<<155, 1>>, <<120, 1>>))>>),
       ChemistryDoc>>]
\* a test id twice in its panel
DocDuplicate ==
  [labPanels |->
     <<PanelDoc("cbc", "Complete Blood Count",
         <<HemoglobinDoc,
           TestDoc(idHemoglobin, TRUE, sHemoglobin, TRUE, uGL,
                   FlatDoc(<<130, 1>>, <<170, 1>>))>>),
       ChemistryDoc>>]
\* a test without name, a test without unit
DocNoName ==
  [labPanels |->
     <<PanelDoc("cbc", "Complete Blood Count",
         <<TestDoc(idHemoglobin, FALSE, <<>>, TRUE, uGL,
                   FlatDoc(<<120, 1>>, <<155, 1>>))>>),
       ChemistryDoc>>]
DocNoUnit ==
  [labPanels |->
     <<PanelDoc("cbc", "Complete Blood Count",
         <<TestDoc(idHemoglobin, TRUE, sHemoglobin, FALSE, <<>>,
                   FlatDoc(<<120, 1>>, <<155, 1>>))>>),
       ChemistryDoc>>]

CatalogDocs == {DocGood, DocInverted, DocDuplicate, DocNoName, DocNoUnit}

\* the states of data/definitions.json: a JSON document, not JSON, or no file
FileOf(doc)  == [exists |-> TRUE, isJSON |-> TRUE, doc |-> doc]
FileNotJSON  == [exists |-> TRUE, isJSON |-> FALSE, doc |-> [labPanels |-> <<>>]]
FileMissing  == [exists |-> FALSE, isJSON |-> FALSE, doc |-> [labPanels |-> <<>>]]
CatalogFiles == {FileOf(doc) : doc \in CatalogDocs} \cup {FileNotJSON, FileMissing}

\* the lines of a report: a label, a separator, a number, a unit
Line(label, sep, number, unit) == label \o sep \o number \o <<" ">> \o unit \o <<"\n">>

ColonSpace == <<":", " ">>

HemoglobinNumbers ==
  { <<"1","5","0">>, <<"1","1","0">>, <<"1","0","0">>, <<"9","5">>,
    <<"1","6","0">>, <<"1","8","0">>, <<"1","9","0">>, <<".">> }
PotassiumNumbers == { <<"2",".","8">>, <<"4",".","2">> }

Lines ==
  {Line(sHemoglobin, ColonSpace, n, uGL) : n \in HemoglobinNumbers}
    \cup {Line(sPotassium, ColonSpace, n, uMmolL) : n \in PotassiumNumbers}
    \cup { Line(<<"I","r","o","n"," ","F","e">>, ColonSpace, <<"2","0">>, uUmolL),
           Line(<<"S","e","r","u","m"," ","I","r","o","n">>, ColonSpace, <<"2","0">>, uUmolL),
           Line(sGlucose, ColonSpace, <<"5",".","0">>, uMmolL) }

\* what may precede the line: nothing, or an earlier mention of a test
FirstLines ==
  { <<>>,
    Line(sHemoglobin, <<" ">>, <<"7">>, <<>>),
    Line(sGlucose, ColonSpace, <<"5",".","0">>, uMmolL) }

Contents == {first \o line : first \in FirstLines, line \in Lines}

\* the text padded with filler to a length
Pad(content, length) ==
  content \o [i \in 1..(length - Len(content)) |-> "#"]

ExtraPad == 0

Texts ==
  {Pad(c, MinTextLength - 1) : c \in Contents}
    \cup {Pad(c, MinTextLength + ExtraPad) : c \in Contents}

(***************************************************************************)
(* The server: app.listen, POST /api/analyze and the global error handler. *)
(* One request is in flight at a time; MaxRequests are served in a run.    *)
(***************************************************************************)
MaxRequests == 2

VARIABLES
  catalogFile,   \* the state of data/definitions.json
  listening,     \* app.listen has been called
  pc,            \* where the request in flight stands
  served,        \* the requests received so far
  upload,        \* what multer made of the request (req.file)
  fileOnDisk,    \* the upload is in the uploads directory
  ocrResults,    \* what callOCRService resolved with
  caught,        \* the message of the error the handler caught
  responses,     \* the responses sent for the request in flight
  input,         \* the arguments of a function under test
  output         \* its result

vars == <<catalogFile, listening, pc, served, upload, fileOnDisk, ocrResults,
          caught, responses, input, output>>

NoInput  == [fn |-> "none", value |-> <<0, 1>>, min |-> <<0, 1>>, max |-> <<0, 1>>]
NoOutput == [fn |-> "none", flag |-> "none"]

\* req.file after upload.single('labReport'), or the error multer passed on
NoUpload == [kind |-> "none", size |-> 0]
Uploads ==
  { NoUpload,
    [kind |-> "stored", size |-> 0],
    [kind |-> "stored", size |-> 2048],
    [kind |-> "filtered", size |-> 2048],     \* fileFilter: not a PDF
    [kind |-> "tooLarge", size |-> 10485761] } \* LIMIT_FILE_SIZE

NoOcrResults ==
  [hasText |-> FALSE, text |-> <<>>, hasExtractedText |-> FALSE,
   extractedText |-> <<>>, hasConfidence |-> FALSE, confidence |-> 0]

\* confidence, in hundredths
Confidences == {0, 87}

\* what the OCR script can print with success: true
OcrResolutions ==
  { [hasText |-> TRUE, text |-> t, hasExtractedText |-> FALSE, extractedText |-> <<>>,
     hasConfidence |-> TRUE, confidence |-> c] : t \in Texts, c \in Confidences }
  \cup
  { [hasText |-> h, text |-> <<>>, hasExtractedText |-> TRUE,
     extractedText |-> Pad(Line(sHemoglobin, ColonSpace, <<"1","5","0">>, uGL),
                           MinTextLength),
     hasConfidence |-> FALSE, confidence |-> 0] : h \in BOOLEAN }
  \cup {NoOcrResults}

\* the messages callOCRService rejects with
OcrRejections ==
  { <<"OCR", "processing", "failed", ":", "OCR", "service", "not", "available">>,
    <<"OCR", "processing", "timeout">>,
    <<"OCR", "processing", "failed", ":", "Unknown", "error">>,
    <<"OCR", ":", "Unknown", "error">>,
    <<"OCR", "service", "returned", "invalid", "response">>,
    <<"OCR", "service", "unavailable">> }

NoSummary ==
  [totalTests |-> 0, normalCount |-> 0, borderlineCount |-> 0, abnormalCount |-> 0,
   criticalCount |-> 0, flaggedTests |-> 0]

ErrorResponse(status, error) ==
  [status |-> status, success |-> FALSE, error |-> error, hasPanels |-> FALSE,
   panels |-> <<>>, hasSummary |-> FALSE, summary |-> NoSummary,
   ocrConfidence |-> [isNull |-> TRUE, value |-> 0]]

\* ocrResults.confidence || null
ConfidenceOrNull(ocr) ==
  IF ocr.hasConfidence /\ ocr.confidence # 0
  THEN [isNull |-> FALSE, value |-> ocr.confidence]
  ELSE [isNull |-> TRUE, value |-> 0]

SuccessResponse(labAnalysis, ocr) ==
  [status |-> 200, success |-> TRUE, error |-> "", hasPanels |-> TRUE,
   panels |-> labAnalysis.panels, hasSummary |-> TRUE,
   summary |-> calculateSummary(labAnalysis.panels),
   ocrConfidence |-> ConfidenceOrNull(ocr)]

\* the catch without its second test
CatchResponseOcrOnly(message) ==
  IF Includes(message, "OCR") THEN ErrorResponse(422, "OCR Processing Failed")
  ELSE ErrorResponse(500, "Analysis Failed")

\* the catch of the handler
CatchResponse(message) ==
  IF Includes(message, "OCR") THEN ErrorResponse(422, "OCR Processing Failed")
  ELSE IF Includes(message, "parsing") THEN ErrorResponse(422, "Parsing Failed")
  ELSE ErrorResponse(500, "Analysis Failed")

\* the global error handler of the application, for an error of multer
GlobalErrorResponse(up) ==
  IF up.kind = "tooLarge" THEN ErrorResponse(413, "File too large")
  ELSE IF up.kind = "tooMany" THEN ErrorResponse(400, "Too many files")
  ELSE ErrorResponse(500, "Only PDF files are allowed")

Init ==
  /\ catalogFile \in CatalogFiles
  /\ listening = FALSE
  /\ pc = "idle"
  /\ served = 0
  /\ upload = NoUpload
  /\ fileOnDisk = FALSE
  /\ ocrResults = NoOcrResults
  /\ caught = <<>>
  /\ responses = <<>>
  /\ input = NoInput
  /\ output = NoOutput

\* app.listen(PORT): nothing reads the catalog before the server accepts requests
Listen ==
  /\ ~listening
  /\ listening' = TRUE
  /\ UNCHANGED <<catalogFile, pc, served, upload, fileOnDisk, ocrResults, caught,
                 responses, input, output>>

\* a POST /api/analyze arrives and upload.single('labReport') runs
Received(up) ==
  /\ upload' = up
  /\ fileOnDisk' = (up.kind = "stored")
  /\ pc' = IF up.kind \in {"none", "stored"} THEN "handler" ELSE "multerError"
  /\ served' = served + 1
  /\ ocrResults' = NoOcrResults
  /\ caught' = <<>>
  /\ responses' = <<>>
  /\ UNCHANGED <<catalogFile, listening, input, output>>

Receive ==
  /\ listening
  /\ pc \in {"idle", "done"}
  /\ served < MaxRequests
  /\ \E up \in Uploads : Received(up)

\* the handler with uploadedFilePath assigned after the size check: the empty
\* file is answered and left in the uploads directory
HandlerStartLate ==
  /\ pc = "handler"
  /\ IF upload.kind = "none"
     THEN /\ responses' = Append(responses, ErrorResponse(400, "No file uploaded"))
          /\ pc' = "done"
     ELSE IF upload.size = 0
     THEN /\ responses' = Append(responses, ErrorResponse(400, "Empty file"))
          /\ pc' = "done"
     ELSE /\ responses' = responses
          /\ pc' = "ocr"
  /\ UNCHANGED <<catalogFile, listening, served, upload, fileOnDisk, ocrResults,
                 caught, input, output>>

\* the handler up to its first await: the checks of req.file
HandlerStart ==
  /\ pc = "handler"
  /\ IF upload.kind = "none"
     THEN /\ responses' = Append(responses, ErrorResponse(400, "No file uploaded"))
          /\ pc' = "done"
     ELSE IF upload.size = 0
     THEN /\ responses' = Append(responses, ErrorResponse(400, "Empty file"))
          /\ pc' = "cleanup"
     ELSE /\ responses' = responses
          /\ pc' = "ocr"
  /\ UNCHANGED <<catalogFile, listening, served, upload, fileOnDisk, ocrResults,
                 caught, input, output>>

\* callOCRService rejects: the catch answers
OcrReject ==
  /\ pc = "ocr"
  /\ \E message \in OcrRejections :
       /\ caught' = message
       /\ responses' = Append(responses, CatchResponse(message))
  /\ pc' = "cleanup"
  /\ UNCHANGED <<catalogFile, listening, served, upload, fileOnDisk, ocrResults,
                 input, output>>

\* callOCRService resolves: parseLabResults starts and awaits fs.readFile
OcrResolve ==
  /\ pc = "ocr"
  /\ \E result \in OcrResolutions : ocrResults' = result
  /\ pc' = "readFile"
  /\ UNCHANGED <<catalogFile, listening, served, upload, fileOnDisk, caught,
                 responses, input, output>>

\* the try block after parseLabResults has settled: the response or the catch
AfterParse(labAnalysis, ocr) ==
  IF labAnalysis.ok
  THEN [response |-> SuccessResponse(labAnalysis, ocr), caught |-> <<>>]
  ELSE [response |-> CatchResponse(labAnalysis.message), caught |-> labAnalysis.message]

\* the catch that records the error and sends nothing
SettledSilently(after) ==
  /\ responses' = IF after.response.success THEN Append(responses, after.response)
                  ELSE responses
  /\ caught' = after.caught

Settled(after) ==
  /\ responses' = Append(responses, after.response)
  /\ caught' = after.caught

\* fs.readFile settles: the rest of parseLabResults and of the try block
ReadFileSettle ==
  /\ pc = "readFile"
  /\ Settled(AfterParse(parseLabResults(ocrResults, catalogFile), ocrResults))
  /\ pc' = "cleanup"
  /\ UNCHANGED <<catalogFile, listening, served, upload, fileOnDisk, ocrResults,
                 input, output>>

\* finally: cleanupFile(uploadedFilePath)
Cleanup ==
  /\ pc = "cleanup"
  /\ fileOnDisk' = FALSE
  /\ pc' = "done"
  /\ UNCHANGED <<catalogFile, listening, served, upload, ocrResults, caught,
                 responses, input, output>>

\* multer passed an error on: the global error handler answers
MulterError ==
  /\ pc = "multerError"
  /\ responses' = Append(responses, GlobalErrorResponse(upload))
  /\ pc' = "done"
  /\ UNCHANGED <<catalogFile, listening, served, upload, fileOnDisk, ocrResults,
                 caught, input, output>>

Next ==
  \/ Listen
  \/ Receive
  \/ HandlerStart
  \/ OcrReject
  \/ OcrResolve
  \/ ReadFileSettle
  \/ Cleanup
  \/ MulterError

Spec == Init /\ [][Next]_vars

(***************************************************************************)
(* determineFlag on its own: the value and the range are decimal literals  *)
(* in tenths, read as the document and definitions.json are read.          *)
(***************************************************************************)
MaxTenths == 65
RangeTenths == {10, 30, 35, 50}
Ranges == {r \in RangeTenths \X RangeTenths : r[1] < r[2]}

FlagInputs ==
  { [fn |-> "determineFlag", value |-> <<v, 10>>, min |-> <<r[1], 10>>, max |-> <<r[2], 10>>] :
      v \in 0..MaxTenths, r \in Ranges }

InitFlag ==
  /\ catalogFile = FileMissing
  /\ listening = FALSE
  /\ pc = "idle"
  /\ served = 0
  /\ upload = NoUpload
  /\ fileOnDisk = FALSE
  /\ ocrResults = NoOcrResults
  /\ caught = <<>>
  /\ responses = <<>>
  /\ input \in FlagInputs
  /\ output = NoOutput

ApplyDetermineFlag ==
  /\ input.fn = "determineFlag"
  /\ output = NoOutput
  /\ output' = [fn |-> "determineFlag",
                flag |-> determineFlag(FromDecimal(input.value[1], input.value[2]),
                                       FromDecimal(input.min[1], input.min[2]),
                                       FromDecimal(input.max[1], input.max[2]))]
  /\ UNCHANGED <<catalogFile, listening, pc, served, upload, fileOnDisk, ocrResults,
                 caught, responses, input>>

NextFlag == ApplyDetermineFlag

SpecFlag == InitFlag /\ [][NextFlag]_vars

(***************************************************************************)
(* C1.  determineFlag(value, min, max) with min < max is normal iff        *)
(* min <= value <= max; below min it is critical if value < 0.8 * min,     *)
(* else abnormal if value < 0.9 * min, else borderline; above max it is    *)
(* critical if value > 1.2 * max, else abnormal if value > 1.1 * max, else *)
(* borderline; the comparisons are strict, so a value exactly at 0.8 * min *)
(* is abnormal.  Stated on the decimal numbers, in exact arithmetic on     *)
(* tenths.                                                                 *)
(***************************************************************************)
LadderFlag(v, a, b) ==
  IF v < a
  THEN IF 10 * v < 8 * a THEN "critical"
       ELSE IF 10 * v < 9 * a THEN "abnormal"
       ELSE "borderline"
  ELSE IF v > b
  THEN IF 10 * v > 12 * b THEN "critical"
       ELSE IF 10 * v > 11 * b THEN "abnormal"
       ELSE "borderline"
  ELSE "normal"

C1_FlagIsLadder ==
  output.fn = "determineFlag" =>
    output.flag = LadderFlag(input.value[1], input.min[1], input.max[1])

(***************************************************************************)
(* The request whose parseLabResults has settled, and what it was given.   *)
(***************************************************************************)
Parsed ==
  /\ pc \in {"cleanup", "done"}
  /\ upload.kind = "stored"
  /\ upload.size > 0
  /\ ~Includes(caught, "OCR")
  /\ Len(responses) = 1

TheResponse == responses[1]
Text == ExtractedText(ocrResults)
CatalogLoads == catalogFile.exists /\ catalogFile.isJSON
Definitions == JSONParse(catalogFile.doc)

\* the defects of a catalog document: a range with min >= max, a test id
\* twice in its panel, a test without name or unit
RangeInverted(r) == r.present /\ ~(r.min[1] * r.max[2] < r.max[1] * r.min[2])

TestDefective(t) ==
  \/ ~t.hasName
  \/ ~t.hasUnit
  \/ RangeInverted(t.referenceRange.flat)
  \/ RangeInverted(t.referenceRange.male)
  \/ RangeInverted(t.referenceRange.female)

PanelDefective(panel) ==
  \/ \E i \in 1..Len(panel.tests) : TestDefective(panel.tests[i])
  \/ \E i \in 1..Len(panel.tests) : \E j \in (i + 1)..Len(panel.tests) :
       panel.tests[i].id = panel.tests[j].id

Defective(doc) == \E p \in 1..Len(doc.labPanels) : PanelDefective(doc.labPanels[p])

Contains(text, sub) ==
  \E i \in 1..(Len(text) - Len(sub) + 1) : SubSeq(text, i, i + Len(sub) - 1) = sub

\* the numbers of the report lines, in tenths
ReportNumbers ==
  { [chars |-> <<"1","5","0">>, tenths |-> 1500],
    [chars |-> <<"1","1","0">>, tenths |-> 1100],
    [chars |-> <<"1","0","0">>, tenths |-> 1000],
    [chars |-> <<"9","5">>,     tenths |-> 950],
    [chars |-> <<"1","6","0">>, tenths |-> 1600],
    [chars |-> <<"1","8","0">>, tenths |-> 1800],
    [chars |-> <<"1","9","0">>, tenths |-> 1900],
    [chars |-> <<"2",".","8">>, tenths |-> 28],
    [chars |-> <<"4",".","2">>, tenths |-> 42] }

TenthsOf(decimal) == (decimal[1] * 10) \div decimal[2]

\* the response holds the test of the definition with the number as value
\* and the flag of the ladder
HoldsTest(response, testDoc, number) ==
  \E k \in 1..Len(response.panels) : \E j \in 1..Len(response.panels[k].tests) :
    /\ response.panels[k].tests[j].id = testDoc.id
    /\ response.panels[k].tests[j].test.name = testDoc.name
    /\ response.panels[k].tests[j].test.value = FromDecimal(number.tenths, 10)
    /\ response.panels[k].tests[j].test.flag =
         LadderFlag(number.tenths, TenthsOf(testDoc.referenceRange.flat.min),
                    TenthsOf(testDoc.referenceRange.flat.max))

LineOf(testDoc, number) ==
  testDoc.name \o <<":", " ">> \o number.chars \o <<" ">> \o testDoc.unit

LineGivesTest(testDoc) ==
  \A number \in ReportNumbers :
    (testDoc.referenceRange.kind = "flat" /\ Contains(Text, LineOf(testDoc, number)))
      => (TheResponse.success /\ HoldsTest(TheResponse, testDoc, number))

(***************************************************************************)
(* C2.  For a catalog test with display name N, unit U and a flat range,   *)
(* and a text of at least the minimum length that contains                 *)
(* 'N: <number> U', the result holds that test with value <number> and the *)
(* flag of the severity ladder for that range.                             *)
(***************************************************************************)
C2_LineGivesValueAndFlag ==
  (Parsed /\ CatalogLoads /\ ~Defective(catalogFile.doc) /\ Len(Text) >= MinTextLength)
    => \A p \in 1..Len(catalogFile.doc.labPanels) :
         \A t \in 1..Len(catalogFile.doc.labPanels[p].tests) :
           LineGivesTest(catalogFile.doc.labPanels[p].tests[t])

InsufficientTextError == ParsingError(MsgInsufficientText)
NoMatchError == ParsingError(MsgNoTests)

(***************************************************************************)
(* C3.  For every catalog, an extracted text that is empty or shorter than *)
(* the minimum length (100 characters) makes parseLabResults fail with the *)
(* insufficient-text error and no panels are returned; a text of the       *)
(* minimum length or more is not rejected by this check.                   *)
(***************************************************************************)
C3_ShortTextRejected ==
  (Parsed /\ CatalogLoads) =>
    /\ Len(Text) < MinTextLength =>
         /\ caught = InsufficientTextError
         /\ ~TheResponse.success
         /\ ~TheResponse.hasPanels
         /\ TheResponse.panels = <<>>
    /\ Len(Text) >= MinTextLength => caught # InsufficientTextError

\* a text one character short of the minimum, naming a test, was rejected
C3_Witness ==
  /\ Parsed
  /\ CatalogLoads
  /\ Len(Text) = MinTextLength - 1
  /\ Contains(Text, sHemoglobin)
  /\ caught = InsufficientTextError

\* some test of some panel of the parsed catalog matches the text
AnyTestMatched(text, definitions) ==
  \E p \in 1..Len(definitions.labPanels) :
    \E t \in 1..Len(definitions.labPanels[p].tests) :
      extractSingleTest(text, definitions.labPanels[p].tests[t],
                        definitions.labPanels[p].tests[t].id).found

(***************************************************************************)
(* C4.  For a text that passes the length check, parseLabResults fails     *)
(* with the no-match error if and only if no test of any catalog panel     *)
(* matched; every successful result holds at least one panel and every     *)
(* panel in it holds at least one test.                                    *)
(***************************************************************************)
C4_NoMatchIffNothingMatched ==
  (Parsed /\ CatalogLoads /\ Len(Text) >= MinTextLength) =>
    /\ (caught = NoMatchError) <=> ~AnyTestMatched(Text, Definitions)
    /\ TheResponse.success <=> AnyTestMatched(Text, Definitions)
    /\ TheResponse.success =>
         /\ Len(TheResponse.panels) >= 1
         /\ \A k \in 1..Len(TheResponse.panels) : Len(TheResponse.panels[k].tests) >= 1

\* a text of sufficient length naming no catalog test met the no-match error
C4_Witness ==
  /\ Parsed
  /\ CatalogLoads
  /\ Len(Text) >= MinTextLength
  /\ Contains(Text, sGlucose)
  /\ caught = NoMatchError
  /\ TheResponse.error = "Parsing Failed"

(***************************************************************************)
(* C5.  Every POST /analyze request is answered exactly once: never more   *)
(* than one response is sent, a request that has left the handler has its  *)
(* response (whichever path it took: no file, empty file, OCR failure,     *)
(* parsing failure, an error of the upload), and a request still in the    *)
(* handler has none yet.  The response is a success body with the panels   *)
(* and their summary or an error body, never both an error and panels.     *)
(***************************************************************************)
WellFormed(response) ==
  IF response.success
  THEN /\ response.status = 200
       /\ response.error = ""
       /\ response.hasPanels
       /\ response.hasSummary
       /\ response.summary = calculateSummary(response.panels)
  ELSE /\ response.status >= 400
       /\ response.error # ""
       /\ ~response.hasPanels
       /\ response.panels = <<>>
       /\ ~response.hasSummary

C5_AnsweredExactlyOnce ==
  /\ Len(responses) <= 1
  /\ pc \in {"cleanup", "done"} => Len(responses) = 1
  /\ pc \in {"handler", "ocr", "readFile", "multerError"} => Len(responses) = 0
  /\ \A i \in 1..Len(responses) : WellFormed(responses[i])

\* a request whose parsing failed has been answered, once, with the error
C5_Witness ==
  /\ pc = "done"
  /\ Parsed
  /\ caught = NoMatchError
  /\ responses = <<ErrorResponse(422, "Parsing Failed")>>

\* the tests of the panels, and those that carry the flag
TestsOf(panels) ==
  UNION { { <<k, j>> : j \in 1..Len(panels[k].tests) } : k \in 1..Len(panels) }

TestsFlagged(panels, flag) ==
  { kj \in TestsOf(panels) : panels[kj[1]].tests[kj[2]].test.flag = flag }

(***************************************************************************)
(* C6.  The summary of every response satisfies                            *)
(* flaggedTests = totalTests - normalCount, and its counts are those of    *)
(* the panels of that same response, whatever was answered before.         *)
(***************************************************************************)
C6_FlaggedIsTotalMinusNormal ==
  \A i \in 1..Len(responses) :
    responses[i].success =>
      /\ responses[i].summary.flaggedTests =
           responses[i].summary.totalTests - responses[i].summary.normalCount
      /\ responses[i].summary.totalTests = Cardinality(TestsOf(responses[i].panels))
      /\ responses[i].summary.normalCount =
           Cardinality(TestsFlagged(responses[i].panels, "normal"))
      /\ responses[i].summary.flaggedTests =
           Cardinality(TestsOf(responses[i].panels))
             - Cardinality(TestsFlagged(responses[i].panels, "normal"))

\* the second request of a run answered with a borderline test: one test,
\* none normal, one flagged
C6_Witness ==
  /\ served = 2
  /\ Len(responses) = 1
  /\ TheResponse.success
  /\ TheResponse.summary.totalTests = 1
  /\ TheResponse.summary.borderlineCount = 1
  /\ TheResponse.summary.flaggedTests = 1

\* the tests of a parsed catalog panel that match the text
MatchedTests(text, panelDef) ==
  { t \in 1..Len(panelDef.tests) :
      extractSingleTest(text, panelDef.tests[t], panelDef.tests[t].id).found }

\* the output panel is the catalog panel with exactly its matched tests, in
\* catalog order
IsPanelOf(panel, panelDef, matched) ==
  /\ panel.id = panelDef.id
  /\ panel.name = panelDef.name
  /\ panel.description = panelDef.description
  /\ Len(panel.tests) = Cardinality(matched)
  /\ { panel.tests[j].id : j \in 1..Len(panel.tests) } =
       { panelDef.tests[t].id : t \in matched }
  /\ \A j \in 1..Len(panel.tests) : \E t \in matched :
       /\ panel.tests[j].id = panelDef.tests[t].id
       /\ panel.tests[j].test.name = panelDef.tests[t].name

PanelsOfCatalog(panels, text, labPanels) ==
  /\ \A p \in 1..Len(labPanels) :
       IF MatchedTests(text, labPanels[p]) = {}
       THEN \A k \in 1..Len(panels) : panels[k].id # labPanels[p].id
       ELSE \E k \in 1..Len(panels) :
              IsPanelOf(panels[k], labPanels[p], MatchedTests(text, labPanels[p]))
  /\ \A k \in 1..Len(panels) : \E p \in 1..Len(labPanels) : panels[k].id = labPanels[p].id
  /\ \A k \in 1..Len(panels) : \A l \in 1..Len(panels) :
       panels[k].id = panels[l].id => k = l

(***************************************************************************)
(* C7.  The output panels are exactly the catalog panels with at least one *)
(* matched test: each carries the catalog panel's name and description     *)
(* and, keyed by testId, exactly the tests of that panel that matched; a   *)
(* test that does not match is absent and causes no error, and a panel     *)
(* with no matched test is absent.                                         *)
(***************************************************************************)
C7_PanelsAreMatchedCatalogPanels ==
  (Parsed /\ CatalogLoads /\ Len(Text) >= MinTextLength) =>
    /\ AnyTestMatched(Text, Definitions) => TheResponse.success
    /\ TheResponse.success =>
         PanelsOfCatalog(TheResponse.panels, Text, Definitions.labPanels)

\* a text that matches a test of each panel and not the third test: two
\* panels in the output, one test each
C7_Witness ==
  /\ Parsed
  /\ catalogFile = FileOf(DocGood)
  /\ Contains(Text, Line(sHemoglobin, <<" ">>, <<"7">>, <<>>))
  /\ Contains(Text, Line(sPotassium, ColonSpace, <<"4",".","2">>, uMmolL))
  /\ TheResponse.success
  /\ Len(TheResponse.panels) = 2
  /\ Len(TheResponse.panels[2].tests) = 1

\* the request failed for a reason other than its text
LoadFailed ==
  /\ ~TheResponse.success
  /\ caught # InsufficientTextError
  /\ caught # NoMatchError

(***************************************************************************)
(* C9.  Loading the catalog fails with a validation error if and only if   *)
(* some reference range (flat or a demographic variant) has min >= max,    *)
(* some test id is twice in its panel, or a name or unit is missing; a     *)
(* catalog without defect loads.                                           *)
(***************************************************************************)
C9_LoadFailsIffDefective ==
  (Parsed /\ CatalogLoads) => (LoadFailed <=> Defective(catalogFile.doc))

(***************************************************************************)
(* C10.  Catalog errors are raised at load time and never at request time: *)
(* no POST /analyze request fails because of the catalog.                  *)
(***************************************************************************)
C10_NoRequestFailsForCatalog == Parsed => ~LoadFailed

Invocations == {1, 2}

OcrOf(text) ==
  [hasText |-> TRUE, text |-> text, hasExtractedText |-> FALSE, extractedText |-> <<>>,
   hasConfidence |-> FALSE, confidence |-> 0]

ConcurrentTexts ==
  { Pad(Line(sHemoglobin, ColonSpace, <<"1","5","0">>, uGL), MinTextLength),
    Pad(Line(sPotassium, ColonSpace, <<"2",".","8">>, uMmolL), MinTextLength),
    Pad(Line(sHemoglobin, <<" ">>, <<"7">>, <<>>)
          \o Line(sPotassium, ColonSpace, <<"4",".","2">>, uMmolL), MinTextLength),
    Pad(Line(sGlucose, ColonSpace, <<"5",".","0">>, uMmolL), MinTextLength),
    Pad(Line(sHemoglobin, ColonSpace, <<"1","5","0">>, uGL), MinTextLength - 1) }

NotCalled ==
  [pc |-> "start", ref |-> 0, message |-> <<>>, panels |-> <<>>, summary |-> NoSummary]

InitConcurrent ==
  /\ catalogFile \in {FileOf(DocGood), FileOf(DocDuplicate), FileMissing}
  /\ listening = TRUE
  /\ pc = "idle"
  /\ served = 0
  /\ upload = NoUpload
  /\ fileOnDisk = FALSE
  /\ ocrResults = NoOcrResults
  /\ caught = <<>>
  /\ responses = <<>>
  /\ input \in { [fn |-> "parseLabResults", ocr |-> <<OcrOf(t1), OcrOf(t2)>>] :
                   t1 \in ConcurrentTexts, t2 \in ConcurrentTexts }
  /\ output = [fn |-> "parseLabResults", heap |-> <<>>,
               invocation |-> [i \in Invocations |-> NotCalled]]

ServerUnchanged ==
  UNCHANGED <<catalogFile, listening, pc, served, upload, fileOnDisk, ocrResults,
              caught, responses, input>>

\* parseLabResults(ocrResults) is called and runs up to await fs.readFile
CallParse(i) ==
  /\ output.invocation[i].pc = "start"
  /\ output' = [output EXCEPT !.invocation[i].pc = "readFile"]
  /\ ServerUnchanged

\* the promise of parseLabResults settles with what the invocation built
Resolved(i, labAnalysis) ==
  IF labAnalysis.ok
  THEN output' = [output EXCEPT
         !.heap = Append(@, labAnalysis.panels),
         !.invocation[i].pc = "resolved",
         !.invocation[i].ref = Len(output.heap) + 1]
  ELSE output' = [output EXCEPT
         !.invocation[i].pc = "rejected",
         !.invocation[i].message = labAnalysis.message]

\* the same with panels a module-level object that every invocation fills
ReadFileSettlesShared(i) ==
  /\ output.invocation[i].pc = "readFile"
  /\ IF parseLabResults(input.ocr[i], catalogFile).ok
     THEN output' = [output EXCEPT
            !.heap = IF @ = <<>>
                     THEN <<parseLabResults(input.ocr[i], catalogFile).panels>>
                     ELSE <<@[1] \o parseLabResults(input.ocr[i], catalogFile).panels>>,
            !.invocation[i].pc = "resolved",
            !.invocation[i].ref = 1]
     ELSE output' = [output EXCEPT
            !.invocation[i].pc = "rejected",
            !.invocation[i].message = parseLabResults(input.ocr[i], catalogFile).message]
  /\ ServerUnchanged

\* fs.readFile settles: the rest of parseLabResults runs without suspension,
\* on a panels object allocated by this invocation (line 250)
ReadFileSettles(i) ==
  /\ output.invocation[i].pc = "readFile"
  /\ Resolved(i, parseLabResults(input.ocr[i], catalogFile))
  /\ ServerUnchanged

\* the handler resumes after await parseLabResults: labAnalysis.panels and
\* calculateSummary(labAnalysis.panels)
Summarise(i) ==
  /\ output.invocation[i].pc = "resolved"
  /\ output' = [output EXCEPT
       !.invocation[i].pc = "done",
       !.invocation[i].panels = output.heap[output.invocation[i].ref],
       !.invocation[i].summary = calculateSummary(output.heap[output.invocation[i].ref])]
  /\ ServerUnchanged

NextConcurrent ==
  \E i \in Invocations :
    \/ CallParse(i)
    \/ ReadFileSettles(i)
    \/ Summarise(i)

SpecConcurrent == InitConcurrent /\ [][NextConcurrent]_vars

\* what the invocation returns when it runs alone
Alone(i) == parseLabResults(input.ocr[i], catalogFile)

SameAsAlone(invocation, alone) ==
  /\ invocation.pc = "done" =>
       /\ alone.ok
       /\ invocation.panels = alone.panels
       /\ invocation.summary = calculateSummary(alone.panels)
  /\ invocation.pc = "rejected" =>
       /\ ~alone.ok
       /\ invocation.message = alone.message

(***************************************************************************)
(* C12.  Concurrent analyses do not interfere: when two invocations are    *)
(* interleaved at every suspension point, each returns the panels and the  *)
(* summary (or the error) it returns when run alone.                       *)
(***************************************************************************)
C12_NoInterference ==
  \A i \in Invocations : SameAsAlone(output.invocation[i], Alone(i))

\* the second invocation settled between the first one's settling and its
\* summary, both on different texts, and the first returned its own panel
C12_Witness ==
  /\ output.invocation[1].pc = "done"
  /\ output.invocation[2].pc = "resolved"
  /\ output.invocation[1].ref = 1
  /\ output.invocation[2].ref = 2
  /\ input.ocr[1] # input.ocr[2]
  /\ output.heap[1] # output.heap[2]
  /\ Len(output.invocation[1].panels) = 1

(***************************************************************************)
(* The client (client/src/services/api.js): analyzeLabReport reads the     *)
(* body of the response, an object with the keys the server gave it.       *)
(***************************************************************************)
BodyKeys(response) ==
  IF response.success THEN {"success", "panels", "metadata", "summary"}
  ELSE {"error", "message"}

\* results.ocrConfidence || null : the key is read on the body itself, and
\* the server puts the confidence under metadata
ClientOcrConfidence(response) ==
  IF "ocrConfidence" \in BodyKeys(response) /\ ~response.ocrConfidence.isNull
       /\ response.ocrConfidence.value # 0
  THEN response.ocrConfidence
  ELSE [isNull |-> TRUE, value |-> 0]

\* the metadata analyzeLabReport keeps
ClientMetadata(response) == [ocrConfidence |-> ClientOcrConfidence(response)]

(***************************************************************************)
(* C13.  The OCR confidence is passed through untouched: whenever OCR      *)
(* returned a confidence c (0 included) the response metadata carries      *)
(* ocrConfidence = c, it is null only when OCR returned no confidence, and *)
(* the metadata the client keeps carries the same value.                   *)
(***************************************************************************)
C13_ConfidencePassedThrough ==
  (Parsed /\ TheResponse.success) =>
    /\ ocrResults.hasConfidence =>
         TheResponse.ocrConfidence = [isNull |-> FALSE, value |-> ocrResults.confidence]
    /\ ~ocrResults.hasConfidence => TheResponse.ocrConfidence.isNull
    /\ ClientMetadata(TheResponse).ocrConfidence = TheResponse.ocrConfidence

(***************************************************************************)
(* upload.single('labReport') on its own: the request's file parts, with   *)
(* the MIME type, the original name and the size of the first.             *)
(***************************************************************************)
MaxFileSize == 10485760

toLowerCase(s) ==
  [i \in 1..Len(s) |->
     IF IndexIn(Uppers, s[i]) > 0 THEN Lowers[IndexIn(Uppers, s[i])] ELSE s[i]]

\* path.extname: from the last dot of the name, if it is not the first character
LastDot(name) ==
  IF \E i \in 1..Len(name) : name[i] = "."
  THEN CHOOSE i \in 1..Len(name) :
         name[i] = "." /\ \A j \in (i + 1)..Len(name) : name[j] # "."
  ELSE 0

extname(name) ==
  IF LastDot(name) <= 1 THEN <<>> ELSE SubSeq(name, LastDot(name), Len(name))

\* fileFilter with the extension not checked
fileFilterMimeOnly(request) == request.mimetype = "application/pdf"

fileFilter(request) ==
  /\ request.mimetype = "application/pdf"
  /\ toLowerCase(extname(request.originalname)) = <<".", "p", "d", "f">>

multer(request) ==
  IF request.files = 0 THEN NoUpload
  ELSE IF ~fileFilter(request) THEN [kind |-> "filtered", size |-> request.size]
  ELSE IF request.files > 1 THEN [kind |-> "tooMany", size |-> request.size]
  ELSE IF request.size > MaxFileSize THEN [kind |-> "tooLarge", size |-> request.size]
  ELSE [kind |-> "stored", size |-> request.size]

MaxFiles == 2

UploadRequests ==
  [ fn : {"upload"},
    files : 0..MaxFiles,
    mimetype : {"application/pdf", "image/png"},
    originalname : { <<"r", ".", "p", "d", "f">>, <<"r", ".", "P", "d", "F">>,
                     <<"r", ".", "t", "x", "t">>, <<"p", "d", "f">>,
                     <<"r", ".", "p", "d", "f", ".", "e", "x", "e">> },
    size : {0, 1, MaxFileSize, MaxFileSize + 1} ]

InitUpload ==
  /\ catalogFile = FileOf(DocGood)
  /\ listening = TRUE
  /\ pc = "idle"
  /\ served = 0
  /\ upload = NoUpload
  /\ fileOnDisk = FALSE
  /\ ocrResults = NoOcrResults
  /\ caught = <<>>
  /\ responses = <<>>
  /\ input \in UploadRequests
  /\ output = NoOutput

\* the request of input arrives
ReceiveUpload ==
  /\ pc = "idle"
  /\ served = 0
  /\ Received(multer(input))

NextUpload ==
  \/ ReceiveUpload
  \/ HandlerStart
  \/ MulterError

SpecUpload == InitUpload /\ [][NextUpload]_vars

MaxWords == 3

OtherWords == {"Unexpected", "error", "ocr", "Parsing", "undefined"}

RECURSIVE WordSeqs(_)
WordSeqs(n) ==
  IF n = 0 THEN {<<>>}
  ELSE {<<>>} \cup { <<w>> \o m : w \in OtherWords, m \in WordSeqs(n - 1) }

\* the rejections of parseLabResults for a text
ParsingRejections ==
  { Failure(MsgInsufficientText).message, Failure(MsgNoTests).message }

CaughtMessages == OcrRejections \cup ParsingRejections \cup (WordSeqs(MaxWords) \ {<<>>})

InitCatch ==
  /\ catalogFile = FileOf(DocGood)
  /\ listening = TRUE
  /\ pc = "idle"
  /\ served = 0
  /\ upload = NoUpload
  /\ fileOnDisk = FALSE
  /\ ocrResults = NoOcrResults
  /\ caught = <<>>
  /\ responses = <<>>
  /\ input \in [fn : {"catch"}, message : CaughtMessages]
  /\ output = NoOutput

ApplyCatch ==
  /\ input.fn = "catch"
  /\ output.fn = "none"
  /\ output' = [fn |-> "catch", response |-> CatchResponse(input.message)]
  /\ UNCHANGED <<catalogFile, listening, pc, served, upload, fileOnDisk, ocrResults,
                 caught, responses, input>>

NextCatch == ApplyCatch

SpecCatch == InitCatch /\ [][NextCatch]_vars

(***************************************************************************)
(* C15.  Per-request errors are reported as structured failure responses:  *)
(* every failure of the OCR step yields status 422 with error 'OCR         *)
(* Processing Failed', every failure of the parsing step (insufficient     *)
(* text, no match) yields status 422 with error 'Parsing Failed', and any  *)
(* other exception yields status 500 with error 'Analysis Failed'.         *)
(***************************************************************************)
C15_ErrorsAreStructured ==
  output.fn = "catch" =>
    /\ ~output.response.success
    /\ ~output.response.hasPanels
    /\ input.message \in OcrRejections =>
         (output.response.status = 422 /\ output.response.error = "OCR Processing Failed")
    /\ input.message \in { <<"parsing", ":">> \o MsgInsufficientText,
                           <<"parsing", ":">> \o MsgNoTests } =>
         (output.response.status = 422 /\ output.response.error = "Parsing Failed")
    /\ (\A i \in 1..Len(input.message) : input.message[i] \notin {"OCR", "parsing"}) =>
         (output.response.status = 500 /\ output.response.error = "Analysis Failed")

\* the no-match error of parseLabResults was answered 422 'Parsing Failed'
C15_Witness ==
  /\ output.fn = "catch"
  /\ input.message = NoMatchError
  /\ output.response = ErrorResponse(422, "Parsing Failed")

(***************************************************************************)
(* extractSingleTest on its own: a text of one or two report lines and a   *)
(* test definition of the catalog.                                         *)
(***************************************************************************)
idGlu == <<"g","l","u">>

\* a gender-keyed range with no male entry, and an id that is not the name
GlucoseDoc == TestDoc(idGlu, TRUE, sGlucose, TRUE, uMmolL,
                      GenderDoc(NoRangeDoc, RangeDoc(<<39, 10>>, <<61, 10>>)))

sFerritin == <<"F","e","r","r","i","t","i","n">>
idFerritin == <<"f","e","r","r","i","t","i","n">>
uUgL == <<"u","g","/","L">>

\* a gender-keyed range with both entries
FerritinDoc == TestDoc(idFerritin, TRUE, sFerritin, TRUE, uUgL,
                       GenderDoc(RangeDoc(<<30, 1>>, <<400, 1>>),
                                 RangeDoc(<<15, 1>>, <<150, 1>>)))

ExtractDefs ==
  {ParseTestDef(t) :
     t \in {HemoglobinDoc, PotassiumDoc, SerumIronDoc, GlucoseDoc, FerritinDoc}}

ExtractLabels ==
  { sHemoglobin, toUpperCase(sHemoglobin), sPotassium, sIronFe,
    <<"I","r","o","n"," ","F","e">>, <<"I","r","o","n">>,
    <<"S","E","R","U","M"," ","I","R","O","N">>, toUpperCase(idSerumIron),
    sGlucose, toUpperCase(idGlu), sFerritin }

ExtractSeparators == { ColonSpace, <<" ">>, <<".",".",".">> }

ExtractNumbers ==
  { <<"1","5","0">>, <<"4",".","2">>, <<"2","0">>, <<".">>, <<"1",".","2",".","3">> }

ExtractUnits == { uGL, uMmolL, uUgL, <<>> }

ExtractLines ==
  { Line(label, sep, number, unit) :
      label \in ExtractLabels, sep \in ExtractSeparators,
      number \in ExtractNumbers, unit \in ExtractUnits }

\* two mentions of one test, by its id and then by its name
TwoMentions ==
  { Line(toUpperCase(idGlu), ColonSpace, <<"4",".","2">>, uMmolL)
      \o Line(sGlucose, ColonSpace, <<"5",".","0">>, uMmolL),
    Line(toUpperCase(idSerumIron), ColonSpace, <<"5">>, uUmolL)
      \o Line(<<"S","E","R","U","M"," ","I","R","O","N">>, ColonSpace, <<"2","0">>, uUmolL) }

ExtractTexts == ExtractLines \cup TwoMentions

InitExtract ==
  /\ catalogFile = FileOf(DocGood)
  /\ listening = TRUE
  /\ pc = "idle"
  /\ served = 0
  /\ upload = NoUpload
  /\ fileOnDisk = FALSE
  /\ ocrResults = NoOcrResults
  /\ caught = <<>>
  /\ responses = <<>>
  /\ input \in [fn : {"extractSingleTest"}, text : ExtractTexts, testDef : ExtractDefs]
  /\ output = NoOutput

ApplyExtract ==
  /\ input.fn = "extractSingleTest"
  /\ output.fn = "none"
  /\ output' = [fn |-> "extractSingleTest",
                test |-> extractSingleTest(input.text, input.testDef, input.testDef.id)]
  /\ UNCHANGED <<catalogFile, listening, pc, served, upload, fileOnDisk, ocrResults,
                 caught, responses, input>>

NextExtract == ApplyExtract

SpecExtract == InitExtract /\ [][NextExtract]_vars

Extracted == output.fn = "extractSingleTest"

\* the name without its parenthetical content, and without the space before it
RECURSIVE StripParenthetical(_, _)
StripParenthetical(s, depth) ==
  IF s = <<>> THEN <<>>
  ELSE IF Head(s) = "(" THEN StripParenthetical(Tail(s), depth + 1)
  ELSE IF Head(s) = ")" THEN StripParenthetical(Tail(s), IF depth > 0 THEN depth - 1 ELSE 0)
  ELSE IF depth > 0 THEN StripParenthetical(Tail(s), depth)
  ELSE <<Head(s)>> \o StripParenthetical(Tail(s), depth)

RECURSIVE TrimEnd(_)
TrimEnd(s) ==
  IF s # <<>> /\ IsSpace(s[Len(s)]) THEN TrimEnd(SubSeq(s, 1, Len(s) - 1)) ELSE s

\* the four candidate names in their order: the display name, the display
\* name with parenthetical content stripped, the id uppercased, the id with
\* separators replaced by spaces and uppercased
CandidateNames(testDef) ==
  << testDef.name,
     TrimEnd(StripParenthetical(testDef.name, 0)),
     toUpperCase(testDef.id),
     toUpperCase(UnderscoresToSpaces(testDef.id)) >>

\* where a candidate name stands in the text, in any case, followed by an
\* optional colon and a number
NameHits(upper, name) == {i \in 1..Len(upper) : MatchesAt(upper, toUpperCase(name), i)}

NumberAfter(text, upper, name, i) ==
  parseFloat(NumberAt(text, upper, NumberStart(upper, toUpperCase(name), i)))

\* the number after the first candidate name, in the order, that matches
RECURSIVE FirstCandidate(_, _, _, _)
FirstCandidate(text, upper, names, k) ==
  IF k > Len(names) THEN [found |-> FALSE, value |-> NaN]
  ELSE IF NameHits(upper, names[k]) # {}
  THEN [found |-> TRUE,
        value |-> NumberAfter(text, upper, names[k], Leftmost(NameHits(upper, names[k])))]
  ELSE FirstCandidate(text, upper, names, k + 1)

(***************************************************************************)
(* C16.  extractSingleTest tries the candidate names in the order display  *)
(* name, display name with parenthetical content stripped, id uppercased,  *)
(* id with separators replaced by spaces and uppercased; a test is         *)
(* reported exactly when one of them matches the text, and its value is    *)
(* the number after the first of them that matches, whatever number a      *)
(* later one would match.                                                  *)
(***************************************************************************)
C16_FirstCandidateWins ==
  Extracted =>
    /\ output.test.found =
         FirstCandidate(input.text, toUpperCase(input.text),
                        CandidateNames(input.testDef), 1).found
    /\ output.test.found =>
         output.test.value =
           FirstCandidate(input.text, toUpperCase(input.text),
                          CandidateNames(input.testDef), 1).value

\* the numbers that follow, after an optional colon and white space, a
\* place of the text where one of the test's patterns stands
NumbersAfterPatterns(text, upper, patterns) ==
  { parseFloat(SubSeq(text, NumberStart(upper, toUpperCase(RemoveParens(patterns[k])), i),
                      Len(text))) :
      <<k, i>> \in { h \in (1..Len(patterns)) \X (1..Len(text)) :
                       MatchesAt(upper, toUpperCase(RemoveParens(patterns[h[1]])), h[2]) } }

(***************************************************************************)
(* C17.  Every test in the result has a numeric value: the number formed   *)
(* by the first sequence of digits with at most one decimal point that     *)
(* follows the matched name pattern, after an optional colon and white     *)
(* space, whether or not the declared unit follows; what yields no such    *)
(* number never produces a reported test.                                  *)
(***************************************************************************)
C17_ValueIsTheNumber ==
  (Extracted /\ output.test.found) =>
    /\ ~output.test.value.nan
    /\ output.test.value \in
         NumbersAfterPatterns(input.text, toUpperCase(input.text),
                              testNamePatterns(input.testDef, input.testDef.id))

\* the range that applies: the flat range itself, else the male entry when
\* the mapping has one, else the female entry
ApplicableRange(referenceRange) ==
  CASE referenceRange.kind = "flat" -> referenceRange.flat
    [] referenceRange.kind = "gender" /\ referenceRange.male.present -> referenceRange.male
    [] referenceRange.kind = "gender" /\ ~referenceRange.male.present -> referenceRange.female

\* '{min} - {max} {unit}'
RangeText(min, max, unit) ==
  NumberToString(min) \o <<" ", "-", " ">> \o NumberToString(max) \o <<" ">> \o unit

(***************************************************************************)
(* C18.  Reference range resolution does not depend on the document text:  *)
(* a flat {min,max} is used directly; of a gender-keyed mapping the male   *)
(* entry is chosen when present and otherwise the female entry; the flag   *)
(* is computed from the chosen range and the reference-range string is     *)
(* '{min} - {max} {unit}' built from that same range.                      *)
(***************************************************************************)
C18_RangeResolved ==
  (Extracted /\ output.test.found) =>
    /\ output.test.flag =
         determineFlag(output.test.value,
                       ApplicableRange(input.testDef.referenceRange).min,
                       ApplicableRange(input.testDef.referenceRange).max)
    /\ output.test.referenceRange =
         Str(RangeText(ApplicableRange(input.testDef.referenceRange).min,
                       ApplicableRange(input.testDef.referenceRange).max,
                       input.testDef.unit))

\* Ferritin 20 with male 30-400 and female 15-150: flagged against the male
\* entry, under which 20 is critical, and not the female one, under which it
\* is normal
C18_Witness ==
  /\ Extracted
  /\ input.testDef.name = sFerritin
  /\ input.text = Line(sFerritin, ColonSpace, <<"2","0">>, uUgL)
  /\ output.test.found
  /\ output.test.flag = "critical"
  /\ output.test.referenceRange.text
       = <<"3","0"," ","-"," ","4","0","0"," ","u","g","/","L">>

\* referenceRangeNumeric.min and .max as a consumer reads them: the number
\* of a {min,max}, undefined (NaN in a comparison) of any other value
NumericMin(numeric) == IF numeric.kind = "flat" THEN numeric.flat.min ELSE NaN
NumericMax(numeric) == IF numeric.kind = "flat" THEN numeric.flat.max ELSE NaN

(***************************************************************************)
(* C19.  In every extracted test referenceRangeNumeric is the resolved     *)
(* {min,max} the flag was computed from, for flat and for gender-keyed     *)
(* definitions alike: flag = determineFlag(value, referenceRangeNumeric.min,*)
(* referenceRangeNumeric.max).                                             *)
(***************************************************************************)
C19_NumericRangeGivesFlag ==
  (Extracted /\ output.test.found) =>
    /\ output.test.referenceRangeNumeric.kind = "flat"
    /\ output.test.referenceRangeNumeric.flat = ApplicableRange(input.testDef.referenceRange)
    /\ output.test.flag =
         determineFlag(output.test.value,
                       NumericMin(output.test.referenceRangeNumeric),
                       NumericMax(output.test.referenceRangeNumeric))

(***************************************************************************)
(* parseLabResults on its own, past the reading of the catalog: a text and *)
(* a catalog, among them one whose chemistry panel starts with a test      *)
(* without name (testDef.name.replace throws TypeError) and a test whose   *)
(* name is not a regular expression (new RegExp throws SyntaxError).       *)
(***************************************************************************)
idSodium == <<"s","o","d","i","u","m">>
idUrea == <<"u","r","e","a">>
sUreaOpen == <<"U","r","e","a"," ","(","B","U","N">>

DocFailing ==
  [labPanels |->
     <<PanelDoc("cbc", "Complete Blood Count", <<HemoglobinDoc>>),
       PanelDoc("chemistry", "Chemistry",
         <<TestDoc(idSodium, FALSE, <<>>, TRUE, uMmolL, FlatDoc(<<135, 1>>, <<145, 1>>)),
           TestDoc(idUrea, TRUE, sUreaOpen, TRUE, uMmolL, FlatDoc(<<25, 10>>, <<70, 10>>)),
           PotassiumDoc, SerumIronDoc>>)>>]

ParseDocs == {DocGood, DocNoName, DocFailing}

InitParse ==
  /\ catalogFile = FileOf(DocGood)
  /\ listening = TRUE
  /\ pc = "idle"
  /\ served = 0
  /\ upload = NoUpload
  /\ fileOnDisk = FALSE
  /\ ocrResults = NoOcrResults
  /\ caught = <<>>
  /\ responses = <<>>
  /\ input \in [fn : {"parseLabResults"}, text : Texts, doc : ParseDocs]
  /\ output = NoOutput

ApplyParse ==
  /\ input.fn = "parseLabResults"
  /\ output.fn = "none"
  /\ output' = [fn |-> "parseLabResults",
                result |-> ParseText(input.text, JSONParse(input.doc))]
  /\ UNCHANGED <<catalogFile, listening, pc, served, upload, fileOnDisk, ocrResults,
                 caught, responses, input>>

NextParse == ApplyParse

SpecParse == InitParse /\ [][NextParse]_vars

\* the catalog without the test at place t of the panel at place p
WithoutTest(labPanels, p, t) ==
  [q \in 1..Len(labPanels) |->
     IF q = p
     THEN [labPanels[q] EXCEPT
             !.tests = SubSeq(@, 1, t - 1) \o SubSeq(@, t + 1, Len(@))]
     ELSE labPanels[q]]

\* the places <<p, t>> of the tests that extractSingleTest returns null for
FailingTests(text, labPanels) ==
  { pt \in UNION { {p} \X (1..Len(labPanels[p].tests)) : p \in 1..Len(labPanels) } :
      ~extractSingleTest(text, labPanels[pt[1]].tests[pt[2]],
                         labPanels[pt[1]].tests[pt[2]].id).found }

(***************************************************************************)
(* C20.  A failure while extracting one test (no pattern found, or an      *)
(* exception raised while building or applying its patterns) omits only    *)
(* that test: the result is what it would be were the failing test not in  *)
(* the catalog, and the request does not fail as long as some other test   *)
(* matched.                                                                *)
(***************************************************************************)
C20_FailureOmitsOnlyTheTest ==
  (output.fn = "parseLabResults" /\ Len(input.text) >= MinTextLength) =>
    /\ AnyTestMatched(input.text, JSONParse(input.doc)) => output.result.ok
    /\ \A pt \in FailingTests(input.text, JSONParse(input.doc).labPanels) :
         output.result =
           ParseText(input.text,
                     [labPanels |->
                        WithoutTest(JSONParse(input.doc).labPanels, pt[1], pt[2])])

\* two tests of the chemistry panel threw, the third is reported
C20_Witness ==
  /\ output.fn = "parseLabResults"
  /\ input.doc = DocFailing
  /\ Len(input.text) >= MinTextLength
  /\ Contains(input.text, Line(sPotassium, ColonSpace, <<"4",".","2">>, uMmolL))
  /\ ~Contains(input.text, sHemoglobin)
  /\ output.result.ok
  /\ Len(output.result.panels) = 1
  /\ Len(output.result.panels[1].tests) = 1
  /\ output.result.panels[1].tests[1].id = idPotassium
  /\ output.result.panels[1].tests[1].test.value = FromDecimal(42, 10)

(***************************************************************************)
(* callOCRService on its own: fs.access, then the promise around the OCR   *)
(* process with its timer and its 'close' and 'error' listeners, then the  *)
(* handler's continuation.  The process is given by what it would exit     *)
(* with; when, and whether, it closes or errors is left open.              *)
(***************************************************************************)
\* what the script prints: not JSON, the JSON null, an object whose success
\* is false, with or without an error field, or a result with success true
OcrOutputs ==
  { [kind |-> "notJSON", result |-> NoOcrResults],
    [kind |-> "null", result |-> NoOcrResults],
    [kind |-> "failure", result |-> NoOcrResults],
    [kind |-> "failureWithError", result |-> NoOcrResults] }
  \cup { [kind |-> "success", result |-> r] :
           r \in { NoOcrResults,
                   [NoOcrResults EXCEPT !.hasConfidence = TRUE, !.confidence = 87] } }

\* stderr of the process, as words
OcrErrorOutputs == { <<>>, <<"Traceback">> }

OcrInputs ==
  [fn : {"callOCRService"}, scriptExists : BOOLEAN, code : {0, 1},
   stdout : OcrOutputs, errorOutput : OcrErrorOutputs]

MsgTimeout == <<"OCR", "processing", "timeout">>
MsgUnavailable == <<"OCR", "service", "unavailable">>
MsgInvalidResponse == <<"OCR", "service", "returned", "invalid", "response">>
MsgNotAvailable == <<"OCR", "service", "not", "available">>

\* the catch of callOCRService around what it awaits
WrapOcr(message) == <<"OCR", "processing", "failed", ":">> \o message

Rejected(message) == [resolved |-> FALSE, message |-> message, result |-> NoOcrResults]
Resolves(result) == [resolved |-> TRUE, message |-> <<>>, result |-> result]

\* the 'close' listener that does not look at the exit code
OnCloseAnyCode(code, stdout, errorOutput) ==
  IF stdout.kind \in {"notJSON", "null"} THEN Rejected(MsgInvalidResponse)
  ELSE IF stdout.kind = "failure" THEN Rejected(<<"OCR", ":", "Unknown", "error">>)
  ELSE IF stdout.kind = "failureWithError" THEN Rejected(<<"OCR", ":", "unreadable">>)
  ELSE Resolves(stdout.result)

\* the 'close' listener past its guard
OnClose(code, stdout, errorOutput) ==
  IF code # 0
  THEN Rejected(<<"OCR", "processing", "failed", ":">>
                  \o (IF errorOutput = <<>> THEN <<"Unknown", "error">> ELSE errorOutput))
  ELSE IF stdout.kind \in {"notJSON", "null"} THEN Rejected(MsgInvalidResponse)
  ELSE IF stdout.kind = "failure" THEN Rejected(<<"OCR", ":", "Unknown", "error">>)
  ELSE IF stdout.kind = "failureWithError" THEN Rejected(<<"OCR", ":", "unreadable">>)
  ELSE Resolves(stdout.result)

\* the promise has not been spawned: calls are the resolve and reject calls made
NotSpawned ==
  [fn |-> "callOCRService", at |-> "access", isResolved |-> FALSE, timeout |-> "none",
   killed |-> FALSE, closed |-> FALSE, errored |-> FALSE, events |-> <<>>,
   calls |-> <<>>, responses |-> <<>>]

InitOcr ==
  /\ catalogFile = FileOf(DocGood)
  /\ listening = TRUE
  /\ pc = "idle"
  /\ served = 0
  /\ upload = NoUpload
  /\ fileOnDisk = FALSE
  /\ ocrResults = NoOcrResults
  /\ caught = <<>>
  /\ responses = <<>>
  /\ input \in OcrInputs
  /\ output = NotSpawned

OcrUnchanged ==
  UNCHANGED <<catalogFile, listening, pc, served, upload, fileOnDisk, ocrResults,
              caught, responses, input>>

\* await fs.access(pythonScript): the throw wrapped by the outer catch, or
\* spawn and setTimeout
AccessSettles ==
  /\ output.fn = "callOCRService"
  /\ output.at = "access"
  /\ output' = IF input.scriptExists
               THEN [output EXCEPT !.at = "promise", !.timeout = "armed"]
               ELSE [output EXCEPT !.at = "promise",
                                   !.calls = <<Rejected(WrapOcr(MsgNotAvailable))>>]
  /\ OcrUnchanged

Spawned == output.fn = "callOCRService" /\ output.at = "promise" /\ input.scriptExists

\* the setTimeout callback without its body
TimeoutFiresSilently ==
  /\ Spawned
  /\ output.timeout = "armed"
  /\ output' = [output EXCEPT !.timeout = "fired", !.events = Append(@, "timeout")]
  /\ OcrUnchanged

\* the setTimeout callback
TimeoutFires ==
  /\ Spawned
  /\ output.timeout = "armed"
  /\ output' = IF ~output.isResolved
               THEN [output EXCEPT !.timeout = "fired", !.isResolved = TRUE,
                                   !.killed = TRUE,
                                   !.events = Append(@, "timeout"),
                                   !.calls = Append(@, Rejected(MsgTimeout))]
               ELSE [output EXCEPT !.timeout = "fired", !.events = Append(@, "timeout")]
  /\ OcrUnchanged

\* clearTimeout(timeout)
Cleared(timeout) == IF timeout = "armed" THEN "cleared" ELSE timeout

\* python.on('close') whose guard does not look at isResolved
CloseListenerUnguarded(o, code, stdout, errorOutput) ==
  [o EXCEPT !.timeout = Cleared(@), !.closed = TRUE, !.events = Append(@, "close"),
            !.isResolved = TRUE,
            !.calls = Append(@, OnClose(code, stdout, errorOutput))]

\* python.on('close', (code) => ...)
CloseListener(o, code, stdout, errorOutput) ==
  IF o.isResolved
  THEN [o EXCEPT !.timeout = Cleared(@), !.closed = TRUE, !.events = Append(@, "close")]
  ELSE [o EXCEPT !.timeout = Cleared(@), !.closed = TRUE, !.events = Append(@, "close"),
                 !.isResolved = TRUE,
                 !.calls = Append(@, OnClose(code, stdout, errorOutput))]

\* the exit code null, of a process ended by a signal
CodeNull == 0 - 1

\* the process closes: with its exit code, or, once killed, with code null
ProcessCloses ==
  /\ Spawned
  /\ ~output.closed
  /\ \E code \in (IF output.killed THEN {CodeNull, input.code} ELSE {input.code}) :
       output' = CloseListener(output, code, input.stdout, input.errorOutput)
  /\ OcrUnchanged

\* python.on('error', (error) => ...)
ProcessErrors ==
  /\ Spawned
  /\ ~output.errored
  /\ output' = IF output.isResolved
               THEN [output EXCEPT !.timeout = Cleared(@), !.errored = TRUE,
                                   !.events = Append(@, "error")]
               ELSE [output EXCEPT !.timeout = Cleared(@), !.errored = TRUE,
                                   !.events = Append(@, "error"),
                                   !.isResolved = TRUE,
                                   !.calls = Append(@, Rejected(MsgUnavailable))]
  /\ OcrUnchanged

\* the handler past await callOCRService, for a promise that rejected: the
\* first call made settles the promise
HandlerCatches ==
  /\ output.fn = "callOCRService"
  /\ output.at = "promise"
  /\ output.calls # <<>>
  /\ ~output.calls[1].resolved
  /\ output.responses = <<>>
  /\ output' = [output EXCEPT !.responses = <<CatchResponse(output.calls[1].message)>>]
  /\ OcrUnchanged

NextOcr == AccessSettles \/ TimeoutFires \/ ProcessCloses \/ ProcessErrors \/ HandlerCatches

SpecOcr == InitOcr /\ [][NextOcr]_vars

\* a timer set fires unless cleared; fs.access settles; the handler runs on
\* once the promise it awaits has settled
SpecOcrFair ==
  SpecOcr /\ WF_vars(AccessSettles) /\ WF_vars(TimeoutFires) /\ WF_vars(HandlerCatches)

OcrSettled == output.fn = "callOCRService" /\ output.calls # <<>>

TimedOut ==
  /\ output.fn = "callOCRService"
  /\ output.events # <<>>
  /\ output.events[1] = "timeout"

(***************************************************************************)
(* C21.  The OCR step is time-bounded: callOCRService always eventually    *)
(* settles, and if the OCR process has not closed when the timeout fires   *)
(* the process is sent SIGTERM and the call rejects, so that the request   *)
(* ends with the OCR-failure response and does not wait for the process.   *)
(***************************************************************************)
C21_OcrStepBounded ==
  /\ <>OcrSettled
  /\ [](TimedOut => (output.killed /\ output.calls = <<Rejected(MsgTimeout)>>))
  /\ (TimedOut ~> output.responses = <<ErrorResponse(422, "OCR Processing Failed")>>)

\* the timeout fired, the process has not closed, the request is answered
C21_Witness ==
  /\ TimedOut
  /\ ~output.closed
  /\ ~output.errored
  /\ output.killed
  /\ output.responses = <<ErrorResponse(422, "OCR Processing Failed")>>

(***************************************************************************)
(* C22.  Under every interleaving of the timeout, the 'close' event and    *)
(* the 'error' event the OCR promise is settled exactly once: the first of *)
(* these events decides the outcome, every later event neither resolves    *)
(* nor rejects, and the timer is cleared when 'close' or 'error' arrives   *)
(* first.                                                                  *)
(***************************************************************************)
C22_SettledOnce ==
  (Spawned /\ output.events # <<>>) =>
    /\ Len(output.calls) = 1
    /\ output.events[1] = "timeout" => output.calls[1] = Rejected(MsgTimeout)
    /\ output.events[1] = "error" => output.calls[1] = Rejected(MsgUnavailable)
    /\ output.events[1] = "close" =>
         output.calls[1] = OnClose(input.code, input.stdout, input.errorOutput)
    /\ output.events[1] \in {"close", "error"} =>
         (output.timeout = "cleared" /\ \A k \in 1..Len(output.events) :
                                          output.events[k] # "timeout")

\* 'error', then 'close' with exit code 0 and a result: the rejection stands
C22_Witness ==
  /\ Spawned
  /\ output.events = <<"error", "close">>
  /\ input.code = 0
  /\ input.stdout.kind = "success"
  /\ output.calls = <<Rejected(MsgUnavailable)>>

(***************************************************************************)
(* C23.  callOCRService resolves only if the OCR process exits with code   *)
(* 0, its stdout parses as JSON and the parsed result has a truthy success *)
(* field; in every other case (script missing, spawn error, non-zero exit, *)
(* invalid JSON, success false, timeout) it rejects with an error whose    *)
(* message contains 'OCR', and the request is answered 'OCR Processing     *)
(* Failed'.                                                                *)
(***************************************************************************)
C23_ResolvesOnlyOnSuccess ==
  OcrSettled =>
    /\ output.calls[1].resolved =>
         /\ input.scriptExists
         /\ input.code = 0
         /\ input.stdout.kind = "success"
         /\ output.calls[1].result = input.stdout.result
         /\ output.events[1] = "close"
    /\ ~output.calls[1].resolved => Includes(output.calls[1].message, "OCR")
    /\ output.responses # <<>> =>
         output.responses = <<ErrorResponse(422, "OCR Processing Failed")>>

\* exit code 0 and {success: false}: rejected, answered 422
C23_Witness ==
  /\ OcrSettled
  /\ input.code = 0
  /\ input.stdout.kind = "failure"
  /\ output.events = <<"close">>
  /\ output.calls = <<Rejected(<<"OCR", ":", "Unknown", "error">>)>>
  /\ output.responses = <<ErrorResponse(422, "OCR Processing Failed")>>

Flags == {"normal", "borderline", "abnormal", "critical"}

(***************************************************************************)
(* C24.  For every result the engine produces, every test's flag is one of *)
(* normal, borderline, abnormal, critical, and the summary counts          *)
(* partition the tests: totalTests = normalCount + borderlineCount +       *)
(* abnormalCount + criticalCount, so that flaggedTests = borderlineCount + *)
(* abnormalCount + criticalCount.                                          *)
(***************************************************************************)
C24_CountsPartitionTests ==
  \A i \in 1..Len(responses) :
    responses[i].success =>
      /\ \A kj \in TestsOf(responses[i].panels) :
           responses[i].panels[kj[1]].tests[kj[2]].test.flag \in Flags
      /\ \A flag \in Flags :
           Cardinality(TestsFlagged(responses[i].panels, flag)) =
             CASE flag = "normal" -> responses[i].summary.normalCount
               [] flag = "borderline" -> responses[i].summary.borderlineCount
               [] flag = "abnormal" -> responses[i].summary.abnormalCount
               [] flag = "critical" -> responses[i].summary.criticalCount
      /\ responses[i].summary.totalTests =
           responses[i].summary.normalCount + responses[i].summary.borderlineCount
             + responses[i].summary.abnormalCount + responses[i].summary.criticalCount
      /\ responses[i].summary.flaggedTests =
           responses[i].summary.borderlineCount + responses[i].summary.abnormalCount
             + responses[i].summary.criticalCount

\* Hemoglobin 7 and Potassium 4.2: two tests, one critical, one normal
C24_Witness ==
  /\ Parsed
  /\ TheResponse.success
  /\ Contains(Text, Line(sHemoglobin, <<" ">>, <<"7">>, <<>>))
  /\ Contains(Text, Line(sPotassium, ColonSpace, <<"4",".","2">>, uMmolL))
  /\ TheResponse.summary.totalTests = 2
  /\ TheResponse.summary.normalCount = 1
  /\ TheResponse.summary.criticalCount = 1
  /\ TheResponse.summary.flaggedTests = 1

(***************************************************************************)
(* TestResult: the icon and the description of a test as delivered, its    *)
(* referenceRangeNumeric kept by analyzeLabReport as the server sent it.   *)
(***************************************************************************)
getFlagIcon(test) ==
  IF test.flag \in {"abnormal", "critical"}
  THEN IF FLess(NumericMax(test.referenceRangeNumeric), test.value)
       THEN "TrendingUp" ELSE "TrendingDown"
  ELSE IF test.flag = "borderline" THEN "Minus"
  ELSE "null"

getFlagDescription(flag, value, referenceRange) ==
  CASE flag = "normal" -> "Within normal range"
    [] flag = "borderline" -> "Slightly outside normal range"
    [] flag = "abnormal" ->
         IF FLess(NumericMax(referenceRange), value)
         THEN "Above normal range" ELSE "Below normal range"
    [] flag = "critical" ->
         IF FLess(NumericMax(referenceRange), value)
         THEN "Critically high" ELSE "Critically low"
    [] OTHER -> "Unknown status"

(***************************************************************************)
(* C25.  A test flagged abnormal or critical is displayed as above range   *)
(* ('Above normal range' / 'Critically high', upward icon) if and only if  *)
(* its value exceeds the max of the range that was used to flag it, and as *)
(* below range otherwise, for flat and for gender-keyed ranges.            *)
(***************************************************************************)
C25_DirectionDisplayed ==
  (Extracted /\ output.test.found /\ output.test.flag \in {"abnormal", "critical"}) =>
    IF FLess(ApplicableRange(input.testDef.referenceRange).max, output.test.value)
    THEN /\ getFlagIcon(output.test) = "TrendingUp"
         /\ getFlagDescription(output.test.flag, output.test.value,
                               output.test.referenceRangeNumeric)
              \in {"Above normal range", "Critically high"}
    ELSE /\ getFlagIcon(output.test) = "TrendingDown"
         /\ getFlagDescription(output.test.flag, output.test.value,
                               output.test.referenceRangeNumeric)
              \in {"Below normal range", "Critically low"}

(***************************************************************************)
(* The client App: its state isProcessing, labResults, error, uploadedFile *)
(* and the requests of handleFileUpload in flight.  An event is one the    *)
(* rendered page offers: the dropzone is disabled while isProcessing and   *)
(* rendered while labResults is null; the error message and the reset      *)
(* buttons are rendered while isProcessing is false.                       *)
(***************************************************************************)
MaxUploads == 5

Files == {"report.pdf", "scan.pdf", "results.pdf"}

\* what analyzeLabReport rejects with
ClientErrors ==
  { "File must be a PDF",
    "File size must be less than 10MB",
    "Request timeout - The analysis is taking longer than expected. Please try again.",
    "File too large. Please ensure your PDF is under 10MB.",
    "Unsupported file type. Please upload a PDF file.",
    "Unable to extract text from PDF. Please ensure it's a valid AHS lab report.",
    "Server error occurred during analysis. Please try again later.",
    "Unable to connect to server. Please check your connection and try again." }

AppStart ==
  [fn |-> "App", isProcessing |-> FALSE, labResults |-> "null", error |-> "null",
   uploadedFile |-> "null", inFlight |-> {}, uploads |-> 0, last |-> "none"]

InitApp ==
  /\ catalogFile = FileOf(DocGood)
  /\ listening = TRUE
  /\ pc = "idle"
  /\ served = 0
  /\ upload = NoUpload
  /\ fileOnDisk = FALSE
  /\ ocrResults = NoOcrResults
  /\ caught = <<>>
  /\ responses = <<>>
  /\ input = [fn |-> "App"]
  /\ output = AppStart

AppUnchanged ==
  UNCHANGED <<catalogFile, listening, pc, served, upload, fileOnDisk, ocrResults,
              caught, responses, input>>

\* handleFileUpload that does not clear the error
UploadStartsKeepingError ==
  /\ output.fn = "App"
  /\ ~output.isProcessing
  /\ output.labResults = "null"
  /\ output.uploads < MaxUploads
  /\ \E file \in Files :
       output' = [output EXCEPT !.isProcessing = TRUE, !.labResults = "null",
                                !.uploadedFile = file,
                                !.inFlight = @ \cup {output.uploads + 1},
                                !.uploads = @ + 1, !.last = "upload"]
  /\ AppUnchanged

\* a file dropped: handleFileUpload up to await analyzeLabReport(file)
UploadStarts ==
  /\ output.fn = "App"
  /\ ~output.isProcessing
  /\ output.labResults = "null"
  /\ output.uploads < MaxUploads
  /\ \E file \in Files :
       output' = [output EXCEPT !.isProcessing = TRUE, !.error = "null",
                                !.labResults = "null", !.uploadedFile = file,
                                !.inFlight = @ \cup {output.uploads + 1},
                                !.uploads = @ + 1, !.last = "upload"]
  /\ AppUnchanged

\* analyzeLabReport resolved: setLabResults(results), then the finally
RequestResolves ==
  /\ output.fn = "App"
  /\ \E request \in output.inFlight :
       output' = [output EXCEPT !.labResults = <<"results of", request>>,
                                !.isProcessing = FALSE,
                                !.inFlight = @ \ {request}, !.last = "resolved"]
  /\ AppUnchanged

\* analyzeLabReport rejected: setError(err.message || ...), then the finally
RequestRejects ==
  /\ output.fn = "App"
  /\ \E request \in output.inFlight, message \in ClientErrors :
       output' = [output EXCEPT !.error = message, !.isProcessing = FALSE,
                                !.inFlight = @ \ {request}, !.last = "rejected"]
  /\ AppUnchanged

\* onDismiss of an ErrorMessage rendered
DismissError ==
  /\ output.fn = "App"
  /\ output.error # "null"
  /\ ~output.isProcessing
  /\ output' = [output EXCEPT !.error = "null", !.last = "dismiss"]
  /\ AppUnchanged

\* handleReset, from 'Upload New Report' or 'Try Again'
Reset ==
  /\ output.fn = "App"
  /\ ~output.isProcessing
  /\ output.labResults # "null" \/ output.error # "null"
  /\ output' = [output EXCEPT !.labResults = "null", !.error = "null",
                              !.uploadedFile = "null", !.isProcessing = FALSE,
                              !.last = "reset"]
  /\ AppUnchanged

NextApp ==
  UploadStarts \/ RequestResolves \/ RequestRejects \/ DismissError \/ Reset

SpecApp == InitApp /\ [][NextApp]_vars

(***************************************************************************)
(* C26.  In the client App, where an upload can start only while no upload *)
(* is processing: labResults and error are never both non-null; starting   *)
(* an upload clears both and sets isProcessing; when the upload's request  *)
(* settles isProcessing is false and exactly one of labResults (on         *)
(* success) or error (on failure) has been set.                            *)
(***************************************************************************)
C26_ResultsOrError ==
  output.fn = "App" =>
    /\ ~(output.labResults # "null" /\ output.error # "null")
    /\ output.last = "upload" =>
         (output.isProcessing /\ output.labResults = "null" /\ output.error = "null")
    /\ output.last = "resolved" =>
         (~output.isProcessing /\ output.labResults # "null" /\ output.error = "null")
    /\ output.last = "rejected" =>
         (~output.isProcessing /\ output.labResults = "null" /\ output.error # "null")
    /\ output.isProcessing <=> output.inFlight # {}

\* an upload that failed, then one that succeeded: the error is gone
C26_Witness ==
  /\ output.fn = "App"
  /\ output.uploads = 2
  /\ output.last = "resolved"
  /\ output.labResults = <<"results of", 2>>
  /\ output.error = "null"

(***************************************************************************)
(* FileUpload's progress simulation: the effect on [isProcessing] and the  *)
(* chains of timers it starts.  A chain is the closure of one effect run:  *)
(* its currentStep and the isProcessing it captured, which is true.  The   *)
(* effect returns no cleanup, so a chain lives until its last step or      *)
(* until the component unmounts (labResults set).                          *)
(***************************************************************************)
MaxRuns == 2

progressSteps ==
  << [progress |-> 10, stage |-> "File uploaded successfully"],
     [progress |-> 25, stage |-> "Validating PDF structure..."],
     [progress |-> 40, stage |-> "Converting PDF to high-res images..."],
     [progress |-> 55, stage |-> "Performing OCR text extraction..."],
     [progress |-> 70, stage |-> "Identifying lab test markers..."],
     [progress |-> 85, stage |-> "Cross-referencing AHS standards..."],
     [progress |-> 95, stage |-> "Generating comprehensive analysis..."],
     [progress |-> 100, stage |-> "Analysis complete! Preparing results..."] >>

\* chains maps a run to the currentStep of its closure; decreased records
\* that a step lowered the progress displayed during a run
Mounted ==
  [fn |-> "FileUpload", mounted |-> TRUE, isProcessing |-> FALSE, progress |-> 0,
   progressStage |-> "", chains |-> <<>>, pending |-> {}, runs |-> 0,
   decreased |-> FALSE]

InitProgress ==
  /\ catalogFile = FileOf(DocGood)
  /\ listening = TRUE
  /\ pc = "idle"
  /\ served = 0
  /\ upload = NoUpload
  /\ fileOnDisk = FALSE
  /\ ocrResults = NoOcrResults
  /\ caught = <<>>
  /\ responses = <<>>
  /\ input = [fn |-> "FileUpload"]
  /\ output = Mounted

\* isProcessing becomes true: the effect's first branch, up to updateProgress()
ProcessingStarts ==
  /\ output.fn = "FileUpload"
  /\ output.mounted
  /\ ~output.isProcessing
  /\ output.runs < MaxRuns
  /\ output' = [output EXCEPT !.isProcessing = TRUE, !.progress = 0,
                              !.progressStage = "Initializing secure upload...",
                              !.chains = Append(@, 0),
                              !.pending = @ \cup {output.runs + 1},
                              !.runs = @ + 1]
  /\ AppUnchanged

\* the request failed: isProcessing becomes false, the effect's else branch
ProcessingFails ==
  /\ output.fn = "FileUpload"
  /\ output.isProcessing
  /\ output' = [output EXCEPT !.isProcessing = FALSE, !.progress = 0,
                              !.progressStage = ""]
  /\ AppUnchanged

\* the request succeeded: labResults is set and FileUpload unmounts
ProcessingSucceeds ==
  /\ output.fn = "FileUpload"
  /\ output.isProcessing
  /\ output' = [output EXCEPT !.isProcessing = FALSE, !.mounted = FALSE,
                              !.progress = 0, !.progressStage = "", !.pending = {}]
  /\ AppUnchanged

\* handleReset: FileUpload mounts anew
Remounts ==
  /\ output.fn = "FileUpload"
  /\ ~output.mounted
  /\ output' = [output EXCEPT !.mounted = TRUE]
  /\ AppUnchanged

\* the timer callback: if (isProcessing) is the closure's, true for every
\* chain; the step is set, and the next timer when there is a next step
Step(o, run) ==
  [o EXCEPT !.progress = progressSteps[o.chains[run] + 1].progress,
            !.progressStage = progressSteps[o.chains[run] + 1].stage,
            !.chains[run] = @ + 1,
            !.pending = IF o.chains[run] + 1 < Len(progressSteps) THEN @ ELSE @ \ {run},
            !.decreased = @ \/ (o.isProcessing
                                 /\ progressSteps[o.chains[run] + 1].progress
                                      < o.progress)]

TimerFires ==
  /\ output.fn = "FileUpload"
  /\ \E run \in output.pending : output' = Step(output, run)
  /\ AppUnchanged

NextProgress ==
  ProcessingStarts \/ ProcessingFails \/ ProcessingSucceeds \/ Remounts \/ TimerFires

SpecProgress == InitProgress /\ [][NextProgress]_vars

(***************************************************************************)
(* C27.  Once isProcessing has become false and the effect has run,        *)
(* progress is 0 and the stage text is empty, and they stay so until the   *)
(* next upload starts: no timer scheduled during a finished run sets       *)
(* progress or stage afterwards; and during one run the displayed progress *)
(* never decreases.                                                        *)
(***************************************************************************)
C27_ProgressStaysReset ==
  output.fn = "FileUpload" =>
    /\ ~output.isProcessing => (output.progress = 0 /\ output.progressStage = "")
    /\ ~output.decreased

(***************************************************************************)
(* The response of the server read by the client: analyzeLabReport keeps   *)
(* the panels and tests that pass its checks, LabResults counts them.      *)
(***************************************************************************)
\* a catalog whose chemistry panel has the empty string for name
DocUnnamedPanel ==
  [labPanels |->
     <<PanelDoc("cbc", "Complete Blood Count", <<HemoglobinDoc>>),
       PanelDoc("chemistry", "", <<PotassiumDoc, SerumIronDoc>>)>>]

ClientDocs == {DocGood, DocNoName, DocNoUnit, DocUnnamedPanel}

\* the tests of a panel kept: if (!test.name || test.value === undefined) return
RECURSIVE ClientTests(_, _)
ClientTests(tests, i) ==
  IF i > Len(tests) THEN <<>>
  ELSE (IF tests[i].test.name = <<>> THEN <<>>
        ELSE <<[id |-> tests[i].id,
                test |-> [tests[i].test EXCEPT
                            !.flag = IF @ = "" THEN "normal" ELSE @]]>>)
       \o ClientTests(tests, i + 1)

\* the panels kept: if (!panel.name || !panel.tests) return
RECURSIVE ClientPanels(_, _)
ClientPanels(panels, i) ==
  IF i > Len(panels) THEN <<>>
  ELSE (IF panels[i].name = "" THEN <<>>
        ELSE <<[id |-> panels[i].id, name |-> panels[i].name,
                description |-> panels[i].description,
                tests |-> ClientTests(panels[i].tests, 1)]>>)
       \o ClientPanels(panels, i + 1)

\* what analyzeLabReport returns for the body of a 200 response
analyzeLabReport(response) ==
  [panels |-> ClientPanels(response.panels, 1), metadata |-> ClientMetadata(response)]

getSummaryStats(results) ==
  CountFlags(AllTests(results.panels), 1,
             [totalTests |-> 0, normalCount |-> 0, borderlineCount |-> 0,
              abnormalCount |-> 0, criticalCount |-> 0])

InitClient ==
  /\ catalogFile = FileOf(DocGood)
  /\ listening = TRUE
  /\ pc = "idle"
  /\ served = 0
  /\ upload = NoUpload
  /\ fileOnDisk = FALSE
  /\ ocrResults = NoOcrResults
  /\ caught = <<>>
  /\ responses = <<>>
  /\ input \in [fn : {"analyzeLabReport"}, text : Texts, doc : ClientDocs]
  /\ output = NoOutput

\* the server answers the text; the client keeps what it keeps of a success
Answered(labAnalysis) ==
  IF labAnalysis.ok
  THEN [fn |-> "analyzeLabReport", response |-> SuccessResponse(labAnalysis, NoOcrResults),
        results |-> analyzeLabReport(SuccessResponse(labAnalysis, NoOcrResults))]
  ELSE [fn |-> "analyzeLabReport", response |-> CatchResponse(labAnalysis.message),
        results |-> [panels |-> <<>>,
                     metadata |-> [ocrConfidence |-> [isNull |-> TRUE, value |-> 0]]]]

ApplyAnalyze ==
  /\ input.fn = "analyzeLabReport"
  /\ output.fn = "none"
  /\ output' = Answered(ParseText(input.text, JSONParse(input.doc)))
  /\ AppUnchanged

NextClient == ApplyAnalyze

SpecClient == InitClient /\ [][NextClient]_vars

(***************************************************************************)
(* C28.  The summary the client displays agrees with the summary the       *)
(* server computed: for every success response, getSummaryStats over the   *)
(* results kept by analyzeLabReport gives the totalTests, normalCount,     *)
(* borderlineCount, abnormalCount and criticalCount of calculateSummary    *)
(* for the response's panels; the client drops or re-flags no test the     *)
(* server counted.                                                         *)
(***************************************************************************)
C28_ClientSummaryAgrees ==
  (output.fn = "analyzeLabReport" /\ output.response.success) =>
    /\ getSummaryStats(output.results).totalTests = output.response.summary.totalTests
    /\ getSummaryStats(output.results).normalCount = output.response.summary.normalCount
    /\ getSummaryStats(output.results).borderlineCount
         = output.response.summary.borderlineCount
    /\ getSummaryStats(output.results).abnormalCount
         = output.response.summary.abnormalCount
    /\ getSummaryStats(output.results).criticalCount
         = output.response.summary.criticalCount

(***************************************************************************)
(* GET /api/health: the checks in their order, each in its own try, then   *)
(* the overall status and the response.  The input gives what each check   *)
(* meets: the heap used, mkdir, the two python processes, the OCR script   *)
(* and the definitions file.                                               *)
(***************************************************************************)
HeapThreshold == 524288000

ProcessEnds == {"code 0", "code 1", "error"}

HealthInputs ==
  [fn : {"health"},
   heapUsed : {HeapThreshold - 1, HeapThreshold, HeapThreshold + 1},
   mkdir : BOOLEAN,
   python : ProcessEnds,
   ocrScript : BOOLEAN,
   packages : ProcessEnds,
   definitions : {"object", "null", "notJSON", "missing"}]

HealthStart == [fn |-> "health", at |-> "memory", checks |-> <<>>, responses |-> <<>>]

InitHealth ==
  /\ catalogFile = FileOf(DocGood)
  /\ listening = TRUE
  /\ pc = "idle"
  /\ served = 0
  /\ upload = NoUpload
  /\ fileOnDisk = FALSE
  /\ ocrResults = NoOcrResults
  /\ caught = <<>>
  /\ responses = <<>>
  /\ input \in HealthInputs
  /\ output = HealthStart

Check(name, status) == [name |-> name, status |-> status]

\* a check done: its entry added, the handler at the next check
Checked(at, name, next, status) ==
  /\ output.fn = "health"
  /\ output.at = at
  /\ output' = [output EXCEPT !.at = next, !.checks = Append(@, Check(name, status))]
  /\ AppUnchanged

\* checks.server and checks.memory
CheckMemory ==
  /\ output.fn = "health"
  /\ output.at = "memory"
  /\ output' = [output EXCEPT
                  !.at = "storage",
                  !.checks = <<Check("server", "ok"),
                               Check("memory", IF input.heapUsed < HeapThreshold
                                               THEN "ok" ELSE "warning")>>]
  /\ AppUnchanged

CheckStorage ==
  Checked("storage", "storage", "python", IF input.mkdir THEN "ok" ELSE "error")

\* checkPythonAvailability: resolves on close with code 0
CheckPython ==
  Checked("python", "python", "ocr", IF input.python = "code 0" THEN "ok" ELSE "error")

\* checkOCRDependencies: fs.access of the script, then the import
CheckOcr ==
  Checked("ocr", "ocr", "definitions",
          IF input.ocrScript /\ input.packages = "code 0" THEN "ok" ELSE "error")

\* JSON.parse(readFile), then Object.keys(definitions.labPanels || {})
CheckDefinitions ==
  Checked("definitions", "definitions", "respond",
          IF input.definitions = "object" THEN "ok" ELSE "error")

Has(checks, status) == \E i \in 1..Len(checks) : checks[i].status = status

\* the overall status with the warnings looked at first
OverallStatusWarningsFirst(checks) ==
  IF Has(checks, "warning") THEN "degraded"
  ELSE IF Has(checks, "error") THEN "unhealthy"
  ELSE "healthy"

OverallStatus(checks) ==
  IF Has(checks, "error") THEN "unhealthy"
  ELSE IF Has(checks, "warning") THEN "degraded"
  ELSE "healthy"

StatusCode(status) == IF status \in {"healthy", "degraded"} THEN 200 ELSE 503

Respond ==
  /\ output.fn = "health"
  /\ output.at = "respond"
  /\ output' = [output EXCEPT
                  !.at = "done",
                  !.responses = Append(@, [statusCode |-> StatusCode(OverallStatus(output.checks)),
                                           status |-> OverallStatus(output.checks),
                                           checks |-> output.checks])]
  /\ AppUnchanged

NextHealth ==
  CheckMemory \/ CheckStorage \/ CheckPython \/ CheckOcr \/ CheckDefinitions \/ Respond

SpecHealth == InitHealth /\ [][NextHealth]_vars

HealthResponse == output.responses[1]

StatusOf(checks, name) ==
  { checks[i].status : i \in { j \in 1..Len(checks) : checks[j].name = name } }

(***************************************************************************)
(* C29.  GET /api/health reports 'unhealthy' iff at least one check has    *)
(* status error, 'degraded' iff no check has status error and at least one *)
(* has status warning, and 'healthy' otherwise; the HTTP status is 503 iff *)
(* the reported status is 'unhealthy' and 200 otherwise; a failing check   *)
(* never prevents the remaining checks from being run and reported.        *)
(***************************************************************************)
C29_HealthStatus ==
  (output.fn = "health" /\ output.at = "done") =>
    /\ Len(output.responses) = 1
    /\ HealthResponse.status = "unhealthy"
         <=> \E i \in 1..Len(HealthResponse.checks) :
               HealthResponse.checks[i].status = "error"
    /\ HealthResponse.status = "degraded"
         <=> /\ \A i \in 1..Len(HealthResponse.checks) :
                  HealthResponse.checks[i].status # "error"
             /\ \E i \in 1..Len(HealthResponse.checks) :
                  HealthResponse.checks[i].status = "warning"
    /\ HealthResponse.status \in {"unhealthy", "degraded", "healthy"}
    /\ HealthResponse.statusCode = 503 <=> HealthResponse.status = "unhealthy"
    /\ HealthResponse.statusCode \in {200, 503}
    /\ StatusOf(HealthResponse.checks, "server") = {"ok"}
    /\ StatusOf(HealthResponse.checks, "memory")
         = {IF input.heapUsed >= HeapThreshold THEN "warning" ELSE "ok"}
    /\ StatusOf(HealthResponse.checks, "storage") = {IF input.mkdir THEN "ok" ELSE "error"}
    /\ StatusOf(HealthResponse.checks, "python")
         = {IF input.python = "code 0" THEN "ok" ELSE "error"}
    /\ StatusOf(HealthResponse.checks, "ocr")
         = {IF input.ocrScript /\ input.packages = "code 0" THEN "ok" ELSE "error"}
    /\ StatusOf(HealthResponse.checks, "definitions")
         = {IF input.definitions = "object" THEN "ok" ELSE "error"}

\* the heap over the threshold and no python: unhealthy, 503, and the checks
\* after python reported
C29_Witness ==
  /\ output.fn = "health"
  /\ output.at = "done"
  /\ input.heapUsed > HeapThreshold
  /\ input.mkdir
  /\ input.python = "error"
  /\ input.definitions = "object"
  /\ HealthResponse.status = "unhealthy"
  /\ HealthResponse.statusCode = 503
  /\ StatusOf(HealthResponse.checks, "definitions") = {"ok"}

\* the upload was rejected by multer and the request is answered
RejectedUpload ==
  /\ input.fn = "upload"
  /\ upload.kind \in {"filtered", "tooLarge"}
  /\ Len(responses) = 1

(***************************************************************************)
(* C30.  An upload rejected before analysis is answered with a 4xx status  *)
(* and never with a 5xx status: 413 when the file exceeds 10MB, and 400 or *)
(* 415 when the file filter rejects it for not being a PDF (wrong MIME     *)
(* type or extension).                                                     *)
(***************************************************************************)
C30_RejectedUploadIsClientError ==
  RejectedUpload =>
    /\ responses[1].status >= 400
    /\ responses[1].status < 500
    /\ upload.kind = "tooLarge" => responses[1].status = 413
    /\ upload.kind = "filtered" => responses[1].status \in {400, 415}
====
